---- MODULE Spec2Model ----
(***************************************************************************)
(* State-machine model of the drone / catching-system simulation           *)
(* (senster/dronesim).                                                     *)
(*                                                                         *)
(* Floating-point quantities are kept in fixed point:                      *)
(*   lengths    in 1/KM kilometre (KM units per kilometre),                *)
(*   densities  in 1/DensityOne (DensityOne is the density 1.0),           *)
(*   angles     in whole degrees.                                          *)
(* Each component has its own specification over the shared variables:     *)
(*   SpecMap    OceanMap (density field)                                   *)
(*   SpecCatch  CatchingSystem (collection vehicle)                        *)
(*   SpecLawn   LawnmowerDrone (fixed-pattern scanning agent)              *)
(*   SpecAI     AIDrone (adaptive scanning agent)                          *)
(*   SpecCirc   CircularDrone (orbit agent) and its catching system        *)
(*   SpecEngine SimulationEngine stepping field, fleet and catching system *)
(*   SpecPeer   two AIDrones exchanging cluster information                *)
(*   SpecRegistry an AIDrone that has flown before (aged cluster registry)  *)
(*   SpecFleet  two AIDrones stepped and synchronised in any order         *)
(*   SpecSync   two to four AIDrones coordinating their sector preferences *)
(***************************************************************************)
EXTENDS Integers, Sequences, FiniteSets, TLC

VARIABLES
    \* ---- OceanMap (src/ocean_map.py) ----
    zarr,                 \* particles_data: the loaded trajectory dataset
    particle_map,         \* self.particle_map: cell -> density
    processed_particles,  \* self.processed_particles: cell -> reduced density
    current_time_index,   \* self.current_time_index
    map_call,             \* the last OceanMap call: operation, arguments, return value
    deplete_streak,       \* the run of process calls at one point since the last step()
    map_ncalls,           \* number of OceanMap calls made so far
    map_nsteps,           \* number of OceanMap.step calls made so far
    map_targets,          \* the cells process_particles_at_location has been called at
    \* ---- CatchingSystem (src/catching_system.py) ----
    cs,                   \* the CatchingSystem object (its attributes)
    cs_before,            \* the object as it was when the last step() was entered
    cs_steps,             \* number of step() calls made so far
    cs_returned,          \* sum of the amounts step() has returned so far
    \* ---- LawnmowerDrone (src/lawnmower_drone.py) ----
    lawn,                 \* the LawnmowerDrone object (its attributes)
    lawn_before,          \* the object as it was when the last step() was entered
    lawn_start,           \* the constructor's x_km, y_km
    lawn_steps,           \* number of step() calls made so far
    \* ---- AIDrone (src/ai_drone.py) ----
    ai,                   \* the AIDrone object (its attributes)
    ai_before,            \* the object as it was when the last step() was entered
    ai_plan,              \* the planner that set the target in the last step()
    ai_steps,             \* number of step() calls made so far
    \* ---- CircularDrone (src/circular_drone.py) ----
    circ,                 \* the CircularDrone object (its attributes)
    circ_before,          \* the object as it was when the last step() was entered
    circ_steps,           \* number of step() calls made so far
    \* ---- SimulationEngine (src/simulation_engine.py) ----
    eng,                  \* the SimulationEngine object and its position in step()
    eng_calls,            \* the calls step() has made on its objects since it was entered
    eng_returns,          \* the 'step' entries of the dicts step() has returned
    eng_syncs,            \* the numbers of the step() calls that called update_drone_positions
    \* ---- two AIDrones that synchronise (src/ai_drone.py) ----
    peerA,                \* the first AIDrone of the fleet
    peerB,                \* the second AIDrone of the fleet
    peer_calls,           \* the synchronisation calls made so far
    peer_before,          \* the pair <<A, B>> as it was before the last call
    \* ---- a fleet of AIDrones that coordinate their sectors (src/ai_drone.py) ----
    fleet,                \* self.drones of the engine: the AIDrones, in list order
    sync_i,               \* the drone of the list whose update_drone_positions is next
    sync_calls            \* number of update_drone_positions calls made so far

mapVars == <<zarr, particle_map, processed_particles, current_time_index,
             map_call, deplete_streak, map_ncalls, map_nsteps, map_targets>>

csVars == <<cs, cs_before, cs_steps, cs_returned>>

lawnVars == <<lawn, lawn_before, lawn_start, lawn_steps>>

aiVars == <<ai, ai_before, ai_plan, ai_steps>>

circVars == <<circ, circ_before, circ_steps>>

engVars == <<eng, eng_calls, eng_returns, eng_syncs>>

peerVars == <<peerA, peerB, peer_calls, peer_before>>

syncVars == <<fleet, sync_i, sync_calls>>

\* the call counters and call logs: every call changes one of them, so they
\* tell a call from a stuttering step
callVars == <<map_ncalls, cs_steps, lawn_steps, ai_steps, circ_steps,
              eng_calls, eng_returns, peer_calls, sync_calls>>

vars == <<callVars, mapVars, csVars, lawnVars, aiVars, circVars, engVars, peerVars, syncVars>>

\* what the calls of one object leave alone: the other objects
notMapVars == <<csVars, lawnVars, aiVars, circVars, engVars, peerVars, syncVars>>
notCsVars == <<mapVars, lawnVars, aiVars, circVars, engVars, peerVars, syncVars>>
notLawnVars == <<mapVars, csVars, aiVars, circVars, engVars, peerVars, syncVars>>
notAiVars == <<mapVars, csVars, lawnVars, circVars, engVars, peerVars, syncVars>>
notCircVars == <<mapVars, csVars, lawnVars, aiVars, engVars, peerVars, syncVars>>
notPeerVars == <<mapVars, csVars, lawnVars, aiVars, circVars, engVars, syncVars>>
notSyncVars == <<mapVars, csVars, lawnVars, aiVars, circVars, engVars, peerVars>>

-----------------------------------------------------------------------------
(* Units and bounds *)

\* length units per kilometre (coordinates are "x_km", "y_km")
KM == 100
\* the density value 1.0 (0.7 + 0.3 of _update_particles_from_zarr)
DensityOne == 200
\* bound on the number of OceanMap calls explored
MaxMapCalls == 4

Min(a, b) == IF a <= b THEN a ELSE b
Max(a, b) == IF a >= b THEN a ELSE b
Abs(a) == IF a >= 0 THEN a ELSE -a

\* Python int(a / b) for b > 0: truncation toward zero
PyInt(a, b) == IF a >= 0 THEN a \div b ELSE -((-a) \div b)

\* floor(sqrt(n)) for n >= 0 (math.sqrt / np.sqrt at fixed-point resolution)
RECURSIVE ISqrtIn(_, _, _)
ISqrtIn(n, lo, hi) ==
    IF lo >= hi THEN lo
    ELSE LET mid == (lo + hi + 1) \div 2
         IN IF mid * mid <= n THEN ISqrtIn(n, mid, hi) ELSE ISqrtIn(n, lo, mid - 1)
ISqrt(n) == ISqrtIn(n, 0, 46340)

RECURSIVE SumSeq(_)
SumSeq(s) == IF s = <<>> THEN 0 ELSE Head(s) + SumSeq(Tail(s))

RECURSIVE SumOver(_, _)
SumOver(f, S) ==
    IF S = {} THEN 0
    ELSE LET e == CHOOSE e \in S : TRUE IN f[e] + SumOver(f, S \ {e})

\* dict lookup helpers: a Python dict is a function on its key set
Has(d, k) == k \in DOMAIN d
Put(d, k, v) == [x \in (DOMAIN d) \cup {k} |-> IF x = k THEN v ELSE d[x]]
EmptyDict == [x \in {} |-> 0]

-----------------------------------------------------------------------------
(* OceanMap *)

width == 100       \* kilometres
height == 100      \* kilometres
grid_size == 1     \* kilometres per grid cell

\* a NaN sample (particle not released yet / already removed)
NaN == <<>>

\* Trajectory datasets: Dataset[t][i] is the <<lon, lat>> of particle i at
\* time step t, or NaN.  Longitude/latitude are integers; the extreme values
\* 0 and 100 occur in every dataset, so the conversion to kilometres is
\* defined (max_lon > min_lon, max_lat > min_lat).
DatasetA ==
    << << <<0, 0>>, <<0, 0>>, <<1, 0>>, <<100, 100>> >>,
       << <<1, 1>>, <<1, 0>>, NaN,      <<100, 100>> >> >>
DatasetB ==
    << << <<0, 0>>, <<0, 0>>, <<0, 0>>, <<0, 1>>, <<100, 100>> >>,
       << NaN,      NaN,      NaN,      NaN,      <<100, 100>> >>,
       << <<1, 1>>, <<1, 1>>, <<0, 0>>, <<2, 1>>, <<100, 100>> >> >>
Datasets == {DatasetA, DatasetB}

\* len(self.time_steps[0])
NumTimeSteps(ds) == Len(ds)

Samples(ds) == {ds[t][i] : t \in 1..Len(ds), i \in 1..Len(ds[1])} \ {NaN}
Lons(ds) == {s[1] : s \in Samples(ds)}
Lats(ds) == {s[2] : s \in Samples(ds)}
SetMin(S) == CHOOSE m \in S : \A e \in S : m <= e
SetMax(S) == CHOOSE m \in S : \A e \in S : m >= e
\* np.nanmin / np.nanmax over the whole dataset
min_lon(ds) == SetMin(Lons(ds))
max_lon(ds) == SetMax(Lons(ds))
min_lat(ds) == SetMin(Lats(ds))
max_lat(ds) == SetMax(Lats(ds))

\* x_km = ((lon - min_lon) / (max_lon - min_lon)) * width, in length units
LonToX(ds, lon) == ((lon - min_lon(ds)) * width * KM) \div (max_lon(ds) - min_lon(ds))
LatToY(ds, lat) == ((lat - min_lat(ds)) * height * KM) \div (max_lat(ds) - min_lat(ds))

\* grid cell of a position: (int(x_km / grid_size), int(y_km / grid_size))
CellOf(x, y) == <<PyInt(x, grid_size * KM), PyInt(y, grid_size * KM)>>

\* the particles of time step t (1-based) that are counted: not NaN, inside the map
CountedParticles(ds, t) ==
    {i \in 1..Len(ds[t]) :
        /\ ds[t][i] /= NaN
        /\ LET x == LonToX(ds, ds[t][i][1])
               y == LatToY(ds, ds[t][i][2])
           IN ~(x < 0 \/ x >= width * KM \/ y < 0 \/ y >= height * KM)}

ParticleCell(ds, t, i) == CellOf(LonToX(ds, ds[t][i][1]), LatToY(ds, ds[t][i][2]))

\* grid_counts: cell -> number of counted particles in it
GridCounts(ds, t) ==
    LET P == CountedParticles(ds, t)
        cells == {ParticleCell(ds, t, i) : i \in P}
    IN [c \in cells |-> Cardinality({i \in P : ParticleCell(ds, t, i) = c})]

\* density = 0.7 + (count / max_count) * 0.3
ZarrDensityUnscaled(count, max_count) == (7 * DensityOne) \div 10 + count * ((3 * DensityOne) \div 10)
ZarrDensity(count, max_count) ==
    (7 * DensityOne) \div 10 + (count * ((3 * DensityOne) \div 10)) \div max_count

\* the particle map built by _update_particles_from_zarr for time index ti (0-based)
ParticleMapAt(ds, ti) ==
    LET t == Min(ti, NumTimeSteps(ds) - 1) + 1
        gc == GridCounts(ds, t)
        max_count == IF DOMAIN gc = {} THEN 1 ELSE SetMax({gc[c] : c \in DOMAIN gc})
    IN [c \in DOMAIN gc |-> ZarrDensity(gc[c], max_count)]

\* centroid of a polygon (sequence of <<x, y>>): sum(p[0])/len, sum(p[1])/len
Centroid(polygon) ==
    <<PyInt(SumSeq([i \in 1..Len(polygon) |-> polygon[i][1]]), Len(polygon)),
      PyInt(SumSeq([i \in 1..Len(polygon) |-> polygon[i][2]]), Len(polygon))>>

\* OceanMap.get_particles_in_area on maps pm (particle_map), pp (processed_particles)
GetParticlesInAreaOn(pm, pp, polygon) ==
    LET c == Centroid(polygon)
        key == CellOf(c[1], c[2])
    IN IF Has(pp, key) THEN pp[key]
       ELSE IF Has(pm, key) THEN pm[key]
       ELSE 0
get_particles_in_area(polygon) ==
    GetParticlesInAreaOn(particle_map, processed_particles, polygon)

\* "Get current density" of process_particles_at_location (lines 147-155, 173-181)
CurrentDensityNoOverride(pm, pp, key) == IF Has(pm, key) THEN pm[key] ELSE 0
CurrentDensity(pm, pp, key) ==
    IF Has(pp, key) THEN pp[key]
    ELSE IF Has(pm, key) THEN pm[key] ELSE 0

\* processable = min(amount, current_density)
ProcessableUnbounded(amount, current_density) == amount
Processable(amount, current_density) == Min(amount, current_density)

\* falloff = max(0.0, 1.0 - distance/radius), in thousandths
Falloff(dx, dy, radius) ==
    Max(0, 1000 - ISqrt(1000000 * (dx * dx + dy * dy)) \div radius)

ProcessRadius == 1
Neighbours(key) ==
    {<<key[1] + dx, key[2] + dy>> : dx \in -ProcessRadius..ProcessRadius,
                                    dy \in -ProcessRadius..ProcessRadius} \ {key}

\* neighbor_processable = min(amount * falloff * 0.5, neighbor_density)
NeighbourProcessable(pm, pp, key, n, amount) ==
    Processable((amount * Falloff(n[1] - key[1], n[2] - key[2], ProcessRadius) * 5) \div 10000,
                CurrentDensity(pm, pp, n))

\* the processed_particles dict after process_particles_at_location
ProcessedAfter(pm, pp, key, amount) ==
    LET cur == CurrentDensity(pm, pp, key)
        touched == Neighbours(key) \cup {key}
    IN [c \in (DOMAIN pp) \cup touched |->
          IF c = key THEN Max(0, cur - Processable(amount, cur))
          ELSE IF c \in Neighbours(key)
               THEN Max(0, CurrentDensity(pm, pp, c) - NeighbourProcessable(pm, pp, key, c, amount))
          ELSE pp[c]]

\* the value returned by process_particles_at_location
ProcessReturn(pm, pp, key, amount) ==
    Processable(amount, CurrentDensity(pm, pp, key))
    + SumOver([n \in Neighbours(key) |-> NeighbourProcessable(pm, pp, key, n, amount)],
              Neighbours(key))

-----------------------------------------------------------------------------
(* OceanMap operations *)

\* positions passed to process_particles_at_location (length units): two
\* neighbouring cells that hold particles and a point right of the map
MapPoints == { <<50, 50>>, <<150, 50>>, <<10050, 50>> }
\* further polygon centres: left of the map, and in an empty region of it
QueryPoints == MapPoints \cup { <<-50, 50>>, <<2550, 2550>> }
\* amounts passed to process_particles_at_location (density units), all >= 0
Amounts == {0, 60, 250}

PointPolygon(p) == <<p, p, p, p>>
SquarePolygon(p, r) == << <<p[1] - r, p[2] - r>>, <<p[1] + r, p[2] - r>>,
                          <<p[1] + r, p[2] + r>>, <<p[1] - r, p[2] + r>> >>
Polygons == {PointPolygon(p) : p \in QueryPoints} \cup {SquarePolygon(<<150, 150>>, KM)}

\* no process call since the last step()
NoStreak == [point |-> <<0, 0>>, n |-> 0, density |-> 0]

\* OceanMap.__init__: load the dataset, build the map of time step 0
MapInitWith(ds) ==
    /\ zarr = ds
    /\ particle_map = ParticleMapAt(zarr, 0)
    /\ processed_particles = EmptyDict
    /\ current_time_index = 1 % NumTimeSteps(zarr)
    /\ map_call = [op |-> "init", point |-> <<0, 0>>, amount |-> 0, ret |-> 0]
    /\ deplete_streak = NoStreak
    /\ map_ncalls = 0
    /\ map_nsteps = 0
    /\ map_targets = {}

MapInit == \E ds \in Datasets : MapInitWith(ds)

\* a step that does not wrap the time index around
MapStepNoWrap ==
    /\ map_ncalls < MaxMapCalls
    /\ particle_map' = ParticleMapAt(zarr, Min(current_time_index, NumTimeSteps(zarr) - 1))
    /\ current_time_index' = current_time_index + 1
    /\ map_call' = [op |-> "step", point |-> <<0, 0>>, amount |-> 0, ret |-> 0]
    /\ deplete_streak' = NoStreak
    /\ map_ncalls' = map_ncalls + 1
    /\ map_nsteps' = map_nsteps + 1
    /\ UNCHANGED <<zarr, processed_particles, map_targets>>
    /\ UNCHANGED notMapVars

\* OceanMap.step -> _update_particles_from_zarr
MapStep ==
    /\ map_ncalls < MaxMapCalls
    /\ particle_map' = ParticleMapAt(zarr, current_time_index)
    /\ current_time_index' = (current_time_index + 1) % NumTimeSteps(zarr)
    /\ map_call' = [op |-> "step", point |-> <<0, 0>>, amount |-> 0, ret |-> 0]
    /\ deplete_streak' = NoStreak
    /\ map_ncalls' = map_ncalls + 1
    /\ map_nsteps' = map_nsteps + 1
    /\ UNCHANGED <<zarr, processed_particles, map_targets>>
    /\ UNCHANGED notMapVars

\* OceanMap.process_particles_at_location(x_km, y_km, amount)
ProcessParticlesAtLocation(p, amount) ==
    /\ map_ncalls < MaxMapCalls
    /\ LET key == CellOf(p[1], p[2]) IN
         /\ processed_particles' = ProcessedAfter(particle_map, processed_particles, key, amount)
         /\ map_call' = [op |-> "process", point |-> p, amount |-> amount,
                         ret |-> ProcessReturn(particle_map, processed_particles, key, amount)]
         /\ deplete_streak' =
                [point |-> p,
                 n |-> IF deplete_streak.n > 0 /\ deplete_streak.point = p
                       THEN deplete_streak.n + 1 ELSE 1,
                 density |-> GetParticlesInAreaOn(particle_map, processed_particles', PointPolygon(p))]
    /\ map_ncalls' = map_ncalls + 1
    /\ map_targets' = map_targets \cup {CellOf(p[1], p[2])}
    /\ UNCHANGED <<zarr, particle_map, current_time_index, map_nsteps>>
    /\ UNCHANGED notMapVars

\* OceanMap.get_particles_in_area(polygon)
GetParticlesInArea(polygon) ==
    /\ map_ncalls < MaxMapCalls
    /\ map_call' = [op |-> "query", point |-> Centroid(polygon), amount |-> 0,
                    ret |-> get_particles_in_area(polygon)]
    /\ map_ncalls' = map_ncalls + 1
    /\ UNCHANGED <<zarr, particle_map, processed_particles, current_time_index, deplete_streak,
                   map_nsteps, map_targets>>
    /\ UNCHANGED notMapVars

MapNext ==
    \/ MapStep
    \/ \E p \in MapPoints, amount \in Amounts : ProcessParticlesAtLocation(p, amount)
    \/ \E polygon \in Polygons : GetParticlesInArea(polygon)

-----------------------------------------------------------------------------
(* Trigonometry at one-degree resolution: sines and cosines times 10000 *)

SinTable ==
    << 0, 175, 349, 523, 698, 872, 1045, 1219, 1392, 1564, 1736, 1908, 2079,
       2250, 2419, 2588, 2756, 2924, 3090, 3256, 3420, 3584, 3746, 3907, 4067, 4226,
       4384, 4540, 4695, 4848, 5000, 5150, 5299, 5446, 5592, 5736, 5878, 6018, 6157,
       6293, 6428, 6561, 6691, 6820, 6947, 7071, 7193, 7314, 7431, 7547, 7660, 7771,
       7880, 7986, 8090, 8192, 8290, 8387, 8480, 8572, 8660, 8746, 8829, 8910, 8988,
       9063, 9135, 9205, 9272, 9336, 9397, 9455, 9511, 9563, 9613, 9659, 9703, 9744,
       9781, 9816, 9848, 9877, 9903, 9925, 9945, 9962, 9976, 9986, 9994, 9998, 10000 >>

\* math.sin / math.cos of an angle in degrees (math.radians applied)
Sin(a) ==
    LET m == a % 360
    IN IF m <= 90 THEN SinTable[m + 1]
       ELSE IF m <= 180 THEN SinTable[180 - m + 1]
       ELSE IF m <= 270 THEN -SinTable[m - 180 + 1]
       ELSE -SinTable[360 - m + 1]
Cos(a) == Sin(a + 90)

\* n / d rounded to the nearest integer (d > 0)
Round(n, d) ==
    IF n >= 0 THEN (2 * n + d) \div (2 * d) ELSE -((2 * (-n) + d) \div (2 * d))

\* r * cos(a), r * sin(a) in length units
ProjX(r, a) == Round(r * Cos(a), 10000)
ProjY(r, a) == Round(r * Sin(a), 10000)

\* the angle in 0..90 whose tangent is ay / ax (ax, ay >= 0, not both 0), to the
\* nearest degree: ay*cos(a) - ax*sin(a) decreases in a and is 0 at the angle
RECURSIVE AcuteIn(_, _, _, _)
AcuteIn(ay, ax, lo, hi) ==
    IF hi - lo <= 1
    THEN IF Abs(ay * Cos(lo) - ax * Sin(lo)) <= Abs(ay * Cos(hi) - ax * Sin(hi))
         THEN lo ELSE hi
    ELSE LET mid == (lo + hi) \div 2
         IN IF ay * Cos(mid) - ax * Sin(mid) >= 0
            THEN AcuteIn(ay, ax, mid, hi) ELSE AcuteIn(ay, ax, lo, mid)

\* math.degrees(math.atan2(dy, dx)), in -180..180; atan2(0, 0) = 0
Quadrant(dy, dx, a) ==
    IF dx >= 0 THEN (IF dy >= 0 THEN a ELSE -a)
    ELSE (IF dy >= 0 THEN 180 - a ELSE a - 180)
Atan2Deg(dy, dx) ==
    IF dx = 0 /\ dy = 0 THEN 0
    ELSE Quadrant(dy, dx, AcuteIn(Abs(dy), Abs(dx), 0, 90))

\* (d + 180) % 360 - 180: an angle difference normalised to -180..179
SignedDiff(d) == ((d + 180) % 360) - 180

\* sqrt(dx*dx + dy*dy) in length units
Dist(dx, dy) == ISqrt(dx * dx + dy * dy)

-----------------------------------------------------------------------------
(* CatchingSystem (src/catching_system.py) *)

\* self.target_position = None
None == <<>>

update_interval == 12      \* self._update_interval
MapLimit == 100            \* the 0..100 km range targets are clamped to

\* CatchingSystem.__init__; move_speed in length units per hour, dt in seconds,
\* max_turn_angle in degrees per hour, system_span and retention_efficiency in tenths
CsNew(x_km, y_km, dt, move_speed, max_turn_angle, strategy) ==
    [ x_km |-> x_km, y_km |-> y_km, speed_km_h |-> 0, heading |-> 0,
      current_load |-> 0, total_collected |-> 0,
      move_speed |-> Round(move_speed * dt, 3600),
      max_turn_angle |-> (max_turn_angle * dt) \div 3600,
      system_span |-> 14, retention_efficiency |-> 5,
      historical_data |-> <<>>, target_position |-> None,
      strategy |-> strategy, update_counter |-> 0, raised |-> FALSE ]

\* _collect_historical_data: append (x, y, particle_data) of every drone that has scanned
RECURSIVE CollectHistoricalData(_, _)
CollectHistoricalData(hist, drones) ==
    IF drones = <<>> THEN hist
    ELSE LET d == Head(drones)
         IN CollectHistoricalData(
                IF d.scanned THEN Append(hist, <<d.x_km, d.y_km, d.particle_data>>) ELSE hist,
                Tail(drones))

\* _get_ground_truth_plastic_density
GroundTruthDensity(s, pm, pp) ==
    GetParticlesInAreaOn(pm, pp, PointPolygon(<<s.x_km, s.y_km>>))

\* plastic_collected = speed_through_water * system_span * retention_efficiency * plastic_density
PlasticCollected(s, plastic_density) ==
    s.move_speed * s.system_span * s.retention_efficiency * plastic_density

\* lines 64-89 of step: reset the load, collect with the ground-truth density
CsCollectAt(s, plastic_density) ==
    IF plastic_density > 0
    THEN [s EXCEPT !.current_load = PlasticCollected(s, plastic_density),
                   !.total_collected = @ + PlasticCollected(s, plastic_density)]
    ELSE [s EXCEPT !.current_load = 0]
CsCollect(s, pm, pp) == CsCollectAt(s, GroundTruthDensity(s, pm, pp))

ClampMap(v) == Max(0, Min(MapLimit * KM, v))

\* random.seed(0); random.uniform(0, 360) = 303.99..., to the nearest degree
RandomAngle == 304

\* _update_movement_target_random: the target of lines 229-236, and the cadence
\* gate of lines 225-227 in front of it
CsRandomTarget(s, s1, c) ==
    LET distance == c * s.move_speed
        target_x == s.x_km + ProjX(distance, RandomAngle - 90)
        target_y == s.y_km + ProjY(distance, RandomAngle - 90)
    IN [s1 EXCEPT !.target_position = <<ClampMap(target_x), ClampMap(target_y)>>]
CsUpdateRandom(s) ==
    LET c == s.update_counter + 1
        s1 == [s EXCEPT !.update_counter = c]
    IN IF c % update_interval /= 0 THEN s1
       ELSE CsRandomTarget(s, s1, c)

\* the grid of _update_movement_target_greedy, in insertion order:
\* a sequence of <<key, density>>; a repeated key averages with the stored value
GreedyGridSize == 2
RECURSIVE GridPut(_, _, _)
GridPut(grid, key, density) ==
    IF grid = <<>> THEN << <<key, density>> >>
    ELSE IF Head(grid)[1] = key
         THEN << <<key, (Head(grid)[2] + density) \div 2>> >> \o Tail(grid)
         ELSE <<Head(grid)>> \o GridPut(Tail(grid), key, density)
RECURSIVE GreedyGrid(_, _)
GreedyGrid(grid, hist) ==
    IF hist = <<>> THEN grid
    ELSE GreedyGrid(GridPut(grid,
                            <<PyInt(Head(hist)[1], GreedyGridSize * KM),
                              PyInt(Head(hist)[2], GreedyGridSize * KM)>>,
                            Head(hist)[3]),
                    Tail(hist))

\* centre of a greedy grid cell: ((grid_x + 0.5) * grid_size, (grid_y + 0.5) * grid_size)
GreedyCellCentre(key) ==
    <<((2 * key[1] + 1) * GreedyGridSize * KM) \div 2,
      ((2 * key[2] + 1) * GreedyGridSize * KM) \div 2>>

\* angle between the direction of travel and the direction to the cell (acos of the dot product)
AngleToCell(s, c) ==
    Abs(SignedDiff(Atan2Deg(c[2] - s.y_km, c[1] - s.x_km) - (s.heading - 90)))

\* direction_score, in thousandths
DirectionScoreAt(a, max_turn_angle) ==
    LET ahead == a < 90 /\ a > -90
    IN IF ahead /\ a <= max_turn_angle THEN 1000
       ELSE IF ahead THEN Max(100, 1000 - ((a - max_turn_angle) * 1000) \div 180)
       ELSE Max(50, (Cos(a) + 10000) \div 20) \div 10
DirectionScore(s, c) == DirectionScoreAt(AngleToCell(s, c), s.max_turn_angle)

\* distance_score, in thousandths
DistanceScoreAt(distance, reach) == (1000 * reach) \div (reach + Abs(distance - reach))
DistanceScore(s, c) ==
    DistanceScoreAt(Dist(c[1] - s.x_km, c[2] - s.y_km), update_interval * s.move_speed)

\* final_score = density * (0.7 * direction_score + 0.3 * distance_score)
ScoreAt(s, c, density) == density * (7 * DirectionScore(s, c) + 3 * DistanceScore(s, c))
FinalScore(s, key, density) == ScoreAt(s, GreedyCellCentre(key), density)

\* scored_cells: the grid cells at least 0.1 km away, in grid order
FarEnough(s, c) == ~(Dist(c[1] - s.x_km, c[2] - s.y_km) * 10 < KM)
ScoredCells(s, grid) ==
    SelectSeq(grid, LAMBDA e : FarEnough(s, GreedyCellCentre(e[1])))

\* max(scored_cells, key=score): the first cell with the highest score
RECURSIVE BestCell(_, _, _)
Better(cell, score, best, best_score) == IF score > best_score THEN cell ELSE best
BestCell(s, cells, best) ==
    IF cells = <<>> THEN best
    ELSE BestCell(s, Tail(cells),
                  Better(Head(cells), FinalScore(s, Head(cells)[1], Head(cells)[2]),
                         best, FinalScore(s, best[1], best[2])))

\* _update_movement_target_greedy
CsGreedyTarget(s, s1, scored) ==
    IF scored = <<>> THEN s1
    ELSE [s1 EXCEPT !.target_position =
             GreedyCellCentre(BestCell(s, Tail(scored), Head(scored))[1])]
CsUpdateGreedy(s) ==
    LET c == s.update_counter + 1
        s1 == [s EXCEPT !.update_counter = c]
    IN IF c % update_interval /= 0 THEN s1
       ELSE IF s.historical_data = <<>> THEN s1
       ELSE CsGreedyTarget(s, s1, ScoredCells(s, GreedyGrid(<<>>, s.historical_data)))

\* _update_movement_target_optimal (the definition at lines 419-472, which
\* replaces the one at 348-401)
OptimalMaxRadius == 50     \* max_radius, km
OptimalResolution == 2     \* path_resolution, km
OptimalAngleStep == 45     \* angle_step_deg

InMap(x, y) == 0 <= x /\ x <= MapLimit * KM /\ 0 <= y /\ y <= MapLimit * KM

\* total_score of one ray: density * 1 / (1 + distance/15)^2 summed over the
\* steps up to the first one outside the map
RECURSIVE RayScore(_, _, _, _, _)
PointScore(pm, pp, x, y, distance) ==
    (GetParticlesInAreaOn(pm, pp, SquarePolygon(<<x, y>>, KM)) * 10000 * 225)
        \div ((15 + distance) * (15 + distance))
RayFrom(s, pm, pp, angle_deg, step, x, y) ==
    IF ~InMap(x, y) THEN 0
    ELSE PointScore(pm, pp, x, y, step * OptimalResolution)
         + RayScore(s, pm, pp, angle_deg, step + 1)
RayScore(s, pm, pp, angle_deg, step) ==
    IF step > OptimalMaxRadius \div OptimalResolution THEN 0
    ELSE RayFrom(s, pm, pp, angle_deg, step,
                 s.x_km + ProjX(step * OptimalResolution * KM, angle_deg),
                 s.y_km + ProjY(step * OptimalResolution * KM, angle_deg))

\* the loop over the headings: <<best_score, best angle or -1>>
RECURSIVE BestRay(_, _, _, _, _)
BetterRay(total_score, angle_deg, best) ==
    IF total_score > best[1] THEN <<total_score, angle_deg>> ELSE best
BestRay(s, pm, pp, angle_deg, best) ==
    IF angle_deg >= 360 THEN best
    ELSE BestRay(s, pm, pp, angle_deg + OptimalAngleStep,
                 BetterRay(RayScore(s, pm, pp, angle_deg, 1), angle_deg, best))

OptimalInterval == update_interval * 24

CsOptimalTarget(s, s1, best) ==
    IF best[2] < 0 THEN s1
    ELSE [s1 EXCEPT !.target_position =
             <<s.x_km + ProjX(OptimalMaxRadius * KM, best[2]),
               s.y_km + ProjY(OptimalMaxRadius * KM, best[2])>>]
CsUpdateOptimal(s, pm, pp) ==
    LET c == s.update_counter + 1
        s1 == [s EXCEPT !.update_counter = c]
    IN IF c % OptimalInterval /= 0 THEN s1
       ELSE CsOptimalTarget(s, s1, BestRay(s, pm, pp, 0, <<0, -1>>))

\* _set_default_target: 12 moves ahead in the direction of travel, clamped to the map
CsSetDefaultTarget(s) ==
    LET target_distance == update_interval * s.move_speed
    IN [s EXCEPT !.target_position =
          <<ClampMap(s.x_km + ProjX(target_distance, s.heading - 90)),
            ClampMap(s.y_km + ProjY(target_distance, s.heading - 90))>>]

Strategies == {"random", "drone", "optimal"}

\* the strategy dispatch of step (lines 91-102) and of _select_new_target (548-557)
CsUpdateTarget(s, pm, pp) ==
    IF s.strategy = "random" THEN CsUpdateRandom(s)
    ELSE IF s.strategy = "drone" THEN CsUpdateGreedy(s)
    ELSE CsUpdateOptimal(s, pm, pp)

\* _select_new_target
CsDefaultIfNone(s) == IF s.target_position = None THEN CsSetDefaultTarget(s) ELSE s
CsSelectNewTarget(s, pm, pp) ==
    CsDefaultIfNone(IF s.strategy \in Strategies THEN CsUpdateTarget(s, pm, pp)
                    ELSE CsSetDefaultTarget(s))

\* target_heading = (degrees(atan2(dy, dx)) - 90) % 360
TargetHeading(dy, dx) == (Atan2Deg(dy, dx) - 90) % 360

\* turn_angle = max(-max_turn_angle, min(max_turn_angle, heading_diff))
TurnAngleUnclamped(max_turn_angle, heading_diff) == heading_diff
TurnAngle(max_turn_angle, heading_diff) ==
    Max(-max_turn_angle, Min(max_turn_angle, heading_diff))

\* the position update (lines 533-540): move_speed along heading - 90
MoveStopNearTarget(s, heading) ==
    IF Dist(s.target_position[1] - s.x_km, s.target_position[2] - s.y_km) < s.move_speed
    THEN <<s.target_position[1], s.target_position[2]>>
    ELSE <<s.x_km + ProjX(s.move_speed, heading - 90),
           s.y_km + ProjY(s.move_speed, heading - 90)>>
Move(s, heading) ==
    <<s.x_km + ProjX(s.move_speed, heading - 90),
      s.y_km + ProjY(s.move_speed, heading - 90)>>

\* capture radius: distance < 0.5
NearTarget(s) ==
    Dist(s.target_position[1] - s.x_km, s.target_position[2] - s.y_km) * 2 < KM

\* lines 519-540: turn by the clamped heading difference, then move
CsMoveTo(s, position, heading) ==
    [s EXCEPT !.heading = heading, !.x_km = position[1], !.y_km = position[2]]
CsMoveAlong(s, heading) == CsMoveTo(s, Move(s, heading), heading)
CsTurn(s, target_heading) ==
    (s.heading + TurnAngle(s.max_turn_angle, SignedDiff(target_heading - s.heading))) % 360
CsTurnAndMove(s) ==
    CsMoveAlong(s, CsTurn(s, TargetHeading(s.target_position[2] - s.y_km,
                                           s.target_position[1] - s.x_km)))
\* lines 510-517: a new target within the capture radius of the current one
CsRetarget(s, pm, pp) == IF NearTarget(s) THEN CsSelectNewTarget(s, pm, pp) ELSE s

\* _move_toward_target
CsMoveTowardTarget(s, pm, pp) ==
    CsTurnAndMove(CsRetarget(CsDefaultIfNone(s), pm, pp))

\* CatchingSystem.step(drones, ocean_map); an unknown strategy raises ValueError
\* after the collection and before any movement
CsDispatch(s, pm, pp) ==
    IF s.strategy \notin Strategies THEN [s EXCEPT !.raised = TRUE]
    ELSE CsMoveTowardTarget(CsUpdateTarget(s, pm, pp), pm, pp)
CsStep(s, drones, pm, pp) ==
    CsDispatch(CsCollect([s EXCEPT !.historical_data = CollectHistoricalData(@, drones)],
                         pm, pp),
               pm, pp)

-----------------------------------------------------------------------------
(* CatchingSystem operations *)

\* bound on the number of CatchingSystem.step calls explored
MaxCsSteps == 13
\* bound on the number of drone reports handed to the catching system
MaxReports == 2

\* the dataset the vehicle runs on: particles around the map centre
DatasetC ==
    << << <<50, 50>>, <<50, 50>>, <<50, 49>>, <<51, 47>>, <<0, 0>>, <<100, 100>> >> >>

\* constructor arguments: start positions (length units), seconds per step,
\* speed (length units per hour), turn rate (degrees per hour), strategy
CsStarts == { <<0, 0>>, <<5000, 5000>> }
CsTimings == { [dt |-> 3600, move_speed |-> 278, max_turn_angle |-> 15],
               [dt |-> 1200, move_speed |-> 278, max_turn_angle |-> 15] }
CsStrategies == Strategies \cup {"astar"}

\* what step reads of the drones: position and particle_data (once scanned)
DroneView(x, y, d) == [x_km |-> x, y_km |-> y, scanned |-> TRUE, particle_data |-> d]
Unscanned == [x_km |-> 5000, y_km |-> 5000, scanned |-> FALSE, particle_data |-> 0]
DroneLists == { <<Unscanned>>,
                <<DroneView(5100, 5500, 200)>>,
                <<DroneView(4700, 4300, 170)>>,
                <<DroneView(MapLimit * KM, 5000, 200)>> }

\* CatchingSystem(dt, x_km, y_km, move_speed, max_turn_angle, strategy)
CatchInitWith(p, t, st) ==
    /\ cs = CsNew(p[1], p[2], t.dt, t.move_speed, t.max_turn_angle, st)
    /\ cs_steps = 0
    /\ cs_before = cs
    /\ cs_returned = 0

CatchInit ==
    \E p \in CsStarts, t \in CsTimings, st \in CsStrategies : CatchInitWith(p, t, st)

\* the vehicle of main.py, in the centre of the map: CatchingSystem(x_km=50.0,
\* y_km=50.0) with the default strategy, at one step per hour
CatchInitMain ==
    CatchInitWith(<<50 * KM, 50 * KM>>, [dt |-> 3600, move_speed |-> 278, max_turn_angle |-> 15],
                  "drone")

\* line 107: step returns self.current_load, unless it has raised
CsReturnedAfter(sum, s) == IF s.raised THEN sum ELSE sum + s.current_load

\* one call of CatchingSystem.step
CatchStep(drones) ==
    /\ cs_steps < MaxCsSteps
    /\ ~cs.raised
    /\ Len(CollectHistoricalData(cs.historical_data, drones)) <= MaxReports
    /\ cs' = CsStep(cs, drones, particle_map, processed_particles)
    /\ cs_before' = cs
    /\ cs_steps' = cs_steps + 1
    /\ cs_returned' = CsReturnedAfter(cs_returned, cs')
    /\ UNCHANGED notCsVars

CatchNext == \E drones \in DroneLists : CatchStep(drones)

-----------------------------------------------------------------------------
(* Drone (src/drone.py): the scan of the fixed-pattern drones *)

\* self.current_heading = 20
DroneHeading == 20

\* get_coverage(camera_specs, altitude): the field of view of the configured
\* camera, used by _create_scan_polygon as kilometres
CameraCoverage == [horizontal_fov_m |-> 60 * KM, vertical_fov_m |-> 34 * KM]

\* one corner (dx, dy) rotated by the heading and translated to the drone,
\* appended as (y, x)
ScanCorner(d, dx, dy) ==
    <<d.y_km + Round(dx * Sin(DroneHeading) + dy * Cos(DroneHeading), 10000),
      d.x_km + Round(dx * Cos(DroneHeading) - dy * Sin(DroneHeading), 10000)>>

ScanRectangle(d, half_width, half_height) ==
    << ScanCorner(d, -half_width, -half_height), ScanCorner(d, half_width, -half_height),
       ScanCorner(d, half_width, half_height), ScanCorner(d, -half_width, half_height) >>

\* _create_scan_polygon
CreateScanPolygon(d) ==
    ScanRectangle(d, CameraCoverage.horizontal_fov_m \div 2, CameraCoverage.vertical_fov_m \div 2)

\* scan_area: particle_data = ocean_map.get_particles_in_area(polygon)
ScanArea(d, pm, pp) ==
    [d EXCEPT !.particle_data = GetParticlesInAreaOn(pm, pp, CreateScanPolygon(d))]

-----------------------------------------------------------------------------
(* LawnmowerDrone (src/lawnmower_drone.py) *)

\* a strategy table entry without "H (km)" / "V (km)", or no strategy name given
NoStrategy == [H |-> 0, V |-> 0]

\* apply_strategy: steps of 0.05 * H and 0.05 * V, each clamped to [0.5, 10] km
StrategyStep(distance_km) == Max(KM \div 2, Min(10 * KM, (distance_km * KM * 5) \div 100))
LawnApplyStrategy(d, strategy) ==
    IF strategy = NoStrategy THEN d
    ELSE [d EXCEPT !.horizontal_step = StrategyStep(strategy.H),
                   !.vertical_step = StrategyStep(strategy.V),
                   !.step_size = StrategyStep(strategy.H)]

\* LawnmowerDrone.__init__; bounds b = [min_x, max_x, min_y, max_y], speed in
\* length units per hour, dt in seconds
LawnNew(x_km, y_km, b, dt, speed, initial_direction, initial_vertical_direction, strategy) ==
    LawnApplyStrategy(
        [ x_km |-> x_km, y_km |-> y_km, particle_data |-> None,
          min_x |-> b.min_x, max_x |-> b.max_x, min_y |-> b.min_y, max_y |-> b.max_y,
          step_size |-> (speed * dt) \div 3600,
          direction |-> initial_direction,
          vertical_direction |-> initial_vertical_direction,
          completed_rows |-> 0,
          horizontal_step |-> (speed * dt) \div 3600,
          vertical_step |-> (speed * dt) \div 3600 ],
        strategy)

\* lines 119-131: the horizontal move and the turn at a horizontal boundary
LawnTurnNoClamp(d, x) ==
    IF x >= d.max_x
    THEN [d EXCEPT !.x_km = x,
                   !.y_km = @ + d.vertical_direction * d.vertical_step,
                   !.direction = -1, !.completed_rows = @ + 1]
    ELSE IF x <= d.min_x
    THEN [d EXCEPT !.x_km = d.min_x,
                   !.y_km = @ + d.vertical_direction * d.vertical_step,
                   !.direction = 1, !.completed_rows = @ + 1]
    ELSE [d EXCEPT !.x_km = x]
LawnTurn(d, x) ==
    IF x >= d.max_x
    THEN [d EXCEPT !.x_km = d.max_x,
                   !.y_km = @ + d.vertical_direction * d.vertical_step,
                   !.direction = -1, !.completed_rows = @ + 1]
    ELSE IF x <= d.min_x
    THEN [d EXCEPT !.x_km = d.min_x,
                   !.y_km = @ + d.vertical_direction * d.vertical_step,
                   !.direction = 1, !.completed_rows = @ + 1]
    ELSE [d EXCEPT !.x_km = x]

\* lines 138-141: after the reversal (d has the new vertical direction), y is
\* set to the boundary that was reached
LawnRestart(d) == [d EXCEPT !.y_km = IF d.vertical_direction > 0 THEN d.min_y ELSE d.max_y]

\* a reversal that leaves y where the row change put it
LawnReverseNoReset(d) ==
    IF \/ d.vertical_direction > 0 /\ d.y_km >= d.max_y
       \/ d.vertical_direction < 0 /\ d.y_km <= d.min_y
    THEN [d EXCEPT !.vertical_direction = -@]
    ELSE d

\* lines 135-141: the reversal at a vertical boundary
LawnReverse(d) ==
    IF \/ d.vertical_direction > 0 /\ d.y_km >= d.max_y
       \/ d.vertical_direction < 0 /\ d.y_km <= d.min_y
    THEN LawnRestart([d EXCEPT !.vertical_direction = -@])
    ELSE d

\* _move_lawnmower_pattern
LawnMoveLawnmowerPattern(d) ==
    LawnReverse(LawnTurn(d, d.x_km + d.direction * d.horizontal_step))

\* LawnmowerDrone.step: scan, then move
LawnStepOf(d, pm, pp) == LawnMoveLawnmowerPattern(ScanArea(d, pm, pp))

-----------------------------------------------------------------------------
(* LawnmowerDrone operations *)

\* bound on the number of LawnmowerDrone.step calls explored
MaxLawnSteps == 30

\* constructor arguments: bounds, start positions (inside, on the boundary and
\* one outside), speed per hour, directions, strategy table entries
LawnBounds == { [min_x |-> 20 * KM, max_x |-> 50 * KM, min_y |-> 30 * KM, max_y |-> 45 * KM],
                [min_x |-> 0, max_x |-> 12 * KM, min_y |-> 0, max_y |-> 3 * KM] }
LawnStarts(b) == { <<b.min_x, b.min_y>>, <<b.max_x, b.max_y>>,
                   <<(b.min_x + b.max_x) \div 2, b.min_y + KM>>,
                   <<b.min_x + KM, b.max_y + 5 * KM>> }
LawnSpeeds == { 100 * KM }
LawnDirections == { -1, 1 }
LawnStrategies == { NoStrategy, [H |-> 30, V |-> 60], [H |-> 400, V |-> 4] }

LawnInitWith(p, b, speed, direction, vertical_direction, strategy) ==
    /\ lawn = LawnNew(p[1], p[2], b, 300, speed, direction, vertical_direction, strategy)
    /\ lawn_before = lawn
    /\ lawn_start = p
    /\ lawn_steps = 0

LawnInit ==
    \E b \in LawnBounds, speed \in LawnSpeeds, direction \in LawnDirections,
       vertical_direction \in LawnDirections, strategy \in LawnStrategies :
        \E p \in LawnStarts(b) :
            LawnInitWith(p, b, speed, direction, vertical_direction, strategy)

\* the first drone of main.py's lawnmower run: LawnmowerDrone(x_km=50, y_km=50,
\* min_x=0, max_x=100, min_y=0, max_y=100, initial_direction=1,
\* initial_vertical_direction=1)
LawnInitMain ==
    LawnInitWith(<<50 * KM, 50 * KM>>,
                 [min_x |-> 0, max_x |-> 100 * KM, min_y |-> 0, max_y |-> 100 * KM],
                 100 * KM, 1, 1, NoStrategy)

\* one call of LawnmowerDrone.step(ocean_map)
LawnStep ==
    /\ lawn_steps < MaxLawnSteps
    /\ lawn' = LawnStepOf(lawn, particle_map, processed_particles)
    /\ lawn_before' = lawn
    /\ lawn_steps' = lawn_steps + 1
    /\ UNCHANGED lawn_start
    /\ UNCHANGED notLawnVars

LawnNext == LawnStep

-----------------------------------------------------------------------------
(* AIDrone (src/ai_drone.py) *)

\* thresholds and parameters set by __init__ (densities in density units,
\* weights in hundredths, radii in grid cells)
low_density_threshold == (2 * DensityOne) \div 10
processed_threshold == (3 * DensityOne) \div 10
min_cluster_density == (8 * DensityOne) \div 10
max_low_density_scans == 5
max_straight_steps == 10
max_memory_size == 50
cluster_radius == 3
cluster_timeout == 10
drone_avoidance_radius == 5
broadcast_interval == 3
initial_exploration_weight == 70
min_exploration_weight == 30
exploration_weight_step == 5

\* scores of _plan_exploration in millionths
ScoreOne == 1000000

\* max(lo, min(hi, v)): "Ensure target is within bounds"
AiClampNone(lo, hi, v) == v
AiClamp(lo, hi, v) == Max(lo, Min(hi, v))

\* grid cell of a position: (int(x_km / grid_size), int(y_km / grid_size)), grid_size = 1.0
AiCell(x, y) == <<PyInt(x, KM), PyInt(y, KM)>>

\* a dict kept as the sequence of its items in insertion order
RECURSIVE ItemsPut(_, _, _)
ItemsPut(items, id, entry) ==
    IF items = <<>> THEN <<entry>>
    ELSE IF Head(items).id = id THEN <<entry>> \o Tail(items)
    ELSE <<Head(items)>> \o ItemsPut(Tail(items), id, entry)
ItemIds(items) == {items[i].id : i \in 1..Len(items)}
ItemOf(items, id) == items[CHOOSE i \in 1..Len(items) : items[i].id = id]

\* AIDrone.__init__; b = [min_x, max_x, min_y, max_y]; current_heading and the
\* ten density_map entries are random draws; target is <<target_x, target_y>>,
\* which are None together and assigned together
AiNew(x_km, y_km, scan_radius, b, step_size, drone_id, current_heading, density_map) ==
    [ x_km |-> x_km, y_km |-> y_km, scan_radius |-> scan_radius,
      min_x |-> b.min_x, max_x |-> b.max_x, min_y |-> b.min_y, max_y |-> b.max_y,
      step_size |-> step_size, drone_id |-> drone_id,
      target |-> None, particle_data |-> None,
      current_heading |-> current_heading,
      scan_memory |-> <<>>, density_map |-> density_map,
      visited_cells |-> {}, processed_cells |-> {},
      consecutive_low_density_scans |-> 0,
      consecutive_steps_same_direction |-> 0,
      other_drone_positions |-> <<>>,
      sector_preference |-> drone_id % 4,
      active_clusters |-> <<>>, cluster_id_counter |-> 0,
      assigned_clusters |-> {},
      last_position_broadcast |-> 0,
      exploration_weight |-> initial_exploration_weight,
      exploitation_success_counter |-> 0 ]

\* _calculate_sector_boundaries (sector_boundaries is recomputed whenever
\* sector_preference is assigned)
SectorBoundaries(d) ==
    LET mid_x == (d.min_x + d.max_x) \div 2
        mid_y == (d.min_y + d.max_y) \div 2
    IN IF d.sector_preference = 0
       THEN [min_x |-> d.min_x, max_x |-> mid_x, min_y |-> d.min_y, max_y |-> mid_y]
       ELSE IF d.sector_preference = 1
       THEN [min_x |-> d.min_x, max_x |-> mid_x, min_y |-> mid_y, max_y |-> d.max_y]
       ELSE IF d.sector_preference = 2
       THEN [min_x |-> mid_x, max_x |-> d.max_x, min_y |-> d.min_y, max_y |-> mid_y]
       ELSE [min_x |-> mid_x, max_x |-> d.max_x, min_y |-> mid_y, max_y |-> d.max_y]

\* lines 117-120 of step: the broadcast counter
AiBroadcast(d) ==
    [d EXCEPT !.last_position_broadcast =
        IF @ + 1 >= broadcast_interval THEN 0 ELSE @ + 1]

\* lines 126-132 of step: eight points on the circle of radius scan_radius
AiScanPolygon(d) ==
    [i \in 1..8 |-> <<d.x_km + ProjX(d.scan_radius, 45 * (i - 1)),
                      d.y_km + ProjY(d.scan_radius, 45 * (i - 1))>>]

\* scan_memory.append(...); pop(0) beyond max_memory_size
MemoryAppend(mem, sample) ==
    IF Len(mem) + 1 > max_memory_size THEN Tail(Append(mem, sample)) ELSE Append(mem, sample)

\* _update_memory
AiUpdateMemory(d, current_density) ==
    [d EXCEPT !.scan_memory = MemoryAppend(@, <<d.x_km, d.y_km, current_density>>),
              !.density_map = Put(@, AiCell(d.x_km, d.y_km), current_density),
              !.visited_cells = @ \cup {AiCell(d.x_km, d.y_km)},
              !.processed_cells = IF current_density < processed_threshold
                                  THEN @ \cup {AiCell(d.x_km, d.y_km)} ELSE @]

\* grid_distance <= cluster_radius between the drone's cell and a cluster centre's cell
NearCluster(d, c) ==
    LET g == AiCell(d.x_km, d.y_km)
        cg == AiCell(c.x, c.y)
    IN (g[1] - cg[1]) * (g[1] - cg[1]) + (g[2] - cg[2]) * (g[2] - cg[2])
          <= cluster_radius * cluster_radius

\* lines 308-317: the merged entry; weight = current / (current + last)
MergedCluster(d, c, current_density) ==
    [ id |-> c.id,
      x |-> Round(c.x * c.density + d.x_km * current_density, current_density + c.density),
      y |-> Round(c.y * c.density + d.y_km * current_density, current_density + c.density),
      density |-> Max(current_density, c.density),
      steps |-> 0 ]

\* the first cluster, in dict order, the drone is near to (0 if none)
RECURSIVE FirstNear(_, _, _)
FirstNear(d, items, i) ==
    IF i > Len(items) THEN 0
    ELSE IF NearCluster(d, items[i]) THEN i
    ELSE FirstNear(d, items, i + 1)

AiMergeCluster(d, c, current_density) ==
    [d EXCEPT !.active_clusters = ItemsPut(@, c.id, MergedCluster(d, c, current_density)),
              !.assigned_clusters = @ \cup {c.id}]
AiCreateCluster(d, current_density) ==
    [d EXCEPT !.active_clusters =
                  ItemsPut(@, d.cluster_id_counter,
                           [id |-> d.cluster_id_counter, x |-> d.x_km, y |-> d.y_km,
                            density |-> current_density, steps |-> 0]),
              !.cluster_id_counter = @ + 1,
              !.assigned_clusters = @ \cup {d.cluster_id_counter}]
AiMergeOrCreate(d, i, current_density) ==
    IF i > 0 THEN AiMergeCluster(d, d.active_clusters[i], current_density)
    ELSE AiCreateCluster(d, current_density)

\* _identify_clusters
AiIdentifyClusters(d, current_density) ==
    IF current_density >= min_cluster_density
    THEN AiMergeOrCreate(d, FirstNear(d, d.active_clusters, 1), current_density)
    ELSE d

\* _update_clusters: age every entry, drop the expired ones
Aged(items) == [i \in 1..Len(items) |-> [items[i] EXCEPT !.steps = @ + 1]]
Unexpired(items) == SelectSeq(items, LAMBDA c : ~(c.steps > cluster_timeout))
Expired(items) == {items[i].id : i \in {j \in 1..Len(items) : items[j].steps > cluster_timeout}}
\* an ageing that evicts from the registry and leaves the assignments alone
AiUpdateClustersKeepAssigned(d) ==
    [d EXCEPT !.active_clusters = Unexpired(Aged(@))]

AiUpdateClusters(d) ==
    [d EXCEPT !.active_clusters = Unexpired(Aged(@)),
              !.assigned_clusters = @ \ Expired(Aged(d.active_clusters))]

\* lines 440-445 of _plan_movement: the consecutive low-density counter
AiCountLowDensity(d) ==
    IF Len(d.scan_memory) > 0
    THEN [d EXCEPT !.consecutive_low_density_scans =
             IF d.scan_memory[Len(d.scan_memory)][3] < low_density_threshold
             THEN @ + 1 ELSE 0]
    ELSE d

\* lines 124-145 of step and 440-445 of _plan_movement: everything before a
\* planner is chosen
AiSenseWith(d, current_density) ==
    AiCountLowDensity(
        AiUpdateClusters(
            AiIdentifyClusters(
                AiUpdateMemory([d EXCEPT !.particle_data = current_density], current_density),
                current_density)))
AiSense(d, pm, pp) ==
    AiSenseWith(AiBroadcast(d), GetParticlesInAreaOn(pm, pp, AiScanPolygon(AiBroadcast(d))))

\* set the target of a move of length step along angle, clamped to the bounds,
\* and the heading
AiTarget(d, step, angle) ==
    [d EXCEPT !.target = <<AiClamp(d.min_x, d.max_x, d.x_km + ProjX(step, angle)),
                           AiClamp(d.min_y, d.max_y, d.y_km + ProjY(step, angle))>>,
              !.current_heading = angle]

\* _plan_random_move; angle is the random draw
AiPlanRandomMove(d, angle) ==
    [AiTarget(d, d.step_size, angle) EXCEPT !.consecutive_steps_same_direction = 0]

\* a forced exploration that leaves the low-density counter alone
AiPlanForcedNoReset(d, angle_change) ==
    [AiTarget(d, (d.step_size * 15) \div 10, (d.current_heading + angle_change) % 360)
        EXCEPT !.consecutive_steps_same_direction = 3]

\* _plan_forced_exploration; angle_change is the signed random draw
AiPlanForcedExploration(d, angle_change) ==
    [AiTarget(d, (d.step_size * 15) \div 10, (d.current_heading + angle_change) % 360)
        EXCEPT !.consecutive_low_density_scans = 0,
               !.consecutive_steps_same_direction = 3]

\* min(abs(a - b), 2*pi - abs(a - b))
AngleDiff(a, b) == Min(Abs(a - b), 360 - Abs(a - b))

\* current_step_size = step_size * (1 + min(consecutive * 0.1, 0.5))
CurrentStepSize(d) ==
    (d.step_size * (10 + Min(d.consecutive_steps_same_direction, 5))) \div 10

\* the angles considered: ahead and 45 degrees either side, or all 8 directions
ExploreAngles(d) ==
    IF d.consecutive_steps_same_direction > 0
    THEN <<d.current_heading - 45, d.current_heading, d.current_heading + 45>>
    ELSE [i \in 1..8 |-> 45 * (i - 1)]

\* lines 512-520: the penalties for visited cells at and around the new cell
RECURSIVE Halved(_, _)
Halved(score, n) == IF n = 0 THEN score ELSE Halved(score \div 2, n - 1)
VisitedAround(d, g) ==
    Cardinality({c \in d.visited_cells : Abs(c[1] - g[1]) <= 1 /\ Abs(c[2] - g[2]) <= 1})
VisitPenalty(d, g, score) ==
    Halved(IF g \in d.visited_cells THEN (score * 7) \div 10 ELSE score, VisitedAround(d, g))

\* lines 522-535: the bonus for moving toward the centre of the preferred sector
SectorAngle(d, sector) ==
    Atan2Deg((sector.min_y + sector.max_y) \div 2 - d.y_km,
             (sector.min_x + sector.max_x) \div 2 - d.x_km)
SectorBonus(d, angle) ==
    ((180 - AngleDiff(angle, SectorAngle(d, SectorBoundaries(d)))) * (ScoreOne \div 2)) \div 180

\* lines 537-547: the penalty for coming close to other drones
RECURSIVE AvoidOthers(_, _, _, _)
AvoidOthers(others, x, y, score) ==
    IF others = <<>> THEN score
    ELSE AvoidOthers(Tail(others), x, y,
            IF Dist(Head(others).x - x, Head(others).y - y) < drone_avoidance_radius * KM
            THEN (((score \div 1000) * Dist(Head(others).x - x, Head(others).y - y))
                     \div (drone_avoidance_radius * KM)) * 800
            ELSE score)

\* lines 504-510: base score plus the momentum bonus
MomentumScore(d, angle) ==
    ScoreOne + ((180 - AngleDiff(angle, d.current_heading)) * ((ScoreOne * 8) \div 10)) \div 180

\* the score of one direction whose new position is <<x, y>>
ExploreScore(d, angle, x, y) ==
    AvoidOthers(d.other_drone_positions, x, y,
                VisitPenalty(d, AiCell(x, y), MomentumScore(d, angle)) + SectorBonus(d, angle))

\* line 496: the new position is within bounds
WithinBounds(d, x, y) == d.min_x <= x /\ x <= d.max_x /\ d.min_y <= y /\ y <= d.max_y

\* direction_scores: the <<angle, score>> of the directions that stay in bounds
Candidate(d, angle, x, y) ==
    IF WithinBounds(d, x, y) THEN << <<angle, ExploreScore(d, angle, x, y)>> >> ELSE <<>>
RECURSIVE DirectionScores(_, _, _)
DirectionScores(d, angles, step) ==
    IF angles = <<>> THEN <<>>
    ELSE Candidate(d, Head(angles), d.x_km + ProjX(step, Head(angles)),
                   d.y_km + ProjY(step, Head(angles)))
         \o DirectionScores(d, Tail(angles), step)

\* max(direction_scores.items(), key=score): the first entry with the highest score
RECURSIVE BestDirection(_, _)
BestDirection(scores, best) ==
    IF scores = <<>> THEN best
    ELSE BestDirection(Tail(scores), IF Head(scores)[2] > best[2] THEN Head(scores) ELSE best)

\* lines 473-475: the momentum counter is reset after max_straight_steps
AiResetMomentum(d) ==
    IF d.consecutive_steps_same_direction >= max_straight_steps
    THEN [d EXCEPT !.consecutive_steps_same_direction = 0] ELSE d

\* lines 553-570: head along the best direction (0.1 rad is 5.7 degrees)
AiHeadAlong(d, best_angle, step) ==
    [AiTarget(d, step, best_angle) EXCEPT
        !.consecutive_steps_same_direction =
            IF Abs(best_angle - d.current_heading) < 6 THEN @ + 1 ELSE 0]

AiExploreScored(d, scores, step, angle) ==
    IF scores /= <<>>
    THEN AiHeadAlong(d, BestDirection(Tail(scores), Head(scores))[1], step)
    ELSE AiPlanRandomMove(d, angle)
AiExploreFrom(d, angle) ==
    AiExploreScored(d, DirectionScores(d, ExploreAngles(d), CurrentStepSize(d)),
                    CurrentStepSize(d), angle)

\* _plan_exploration; angle is the random draw of the fallback _plan_random_move
AiPlanExploration(d, angle) == AiExploreFrom(AiResetMomentum(d), angle)

\* no direction of _plan_exploration stays within bounds
NoDirection(d) ==
    DirectionScores(AiResetMomentum(d), ExploreAngles(AiResetMomentum(d)),
                    CurrentStepSize(AiResetMomentum(d))) = <<>>

\* lines 591-608: density / (1 + distance * 0.1), halved for every other drone
\* that is closer than 0.8 of the distance; in millionths of a density unit
RECURSIVE CloserOthers(_, _, _)
CloserOthers(others, c, distance) ==
    IF others = <<>> THEN 0
    ELSE (IF Dist(c.x - Head(others).x, c.y - Head(others).y) * 10 < distance * 8 THEN 1 ELSE 0)
         + CloserOthers(Tail(others), c, distance)
ClusterScoreAt(d, c, distance) ==
    Halved((c.density * 1000 * 1000) \div (1000 + (distance * 10) \div KM),
           CloserOthers(d.other_drone_positions, c, distance))
ClusterScore(d, c) == ClusterScoreAt(d, c, Dist(c.x - d.x_km, c.y - d.y_km))

\* lines 584-612: the assigned, active cluster with the highest score, the
\* first such in the iteration order of the set (ascending ids); -1 if none
RECURSIVE BestClusterIn(_, _, _, _)
BestClusterIn(d, ids, best_cluster_id, best_cluster_score) ==
    IF ids = {} THEN best_cluster_id
    ELSE LET id == SetMin(ids)
             known == id \in ItemIds(d.active_clusters)
         IN IF known /\ ClusterScore(d, ItemOf(d.active_clusters, id)) > best_cluster_score
            THEN BestClusterIn(d, ids \ {id}, id, ClusterScore(d, ItemOf(d.active_clusters, id)))
            ELSE BestClusterIn(d, ids \ {id}, best_cluster_id, best_cluster_score)
BestCluster(d) == BestClusterIn(d, d.assigned_clusters, -1, -1)

\* a count of the success that lowers the weight without a minimum
AiCountSuccessNoMin(d) ==
    IF d.exploitation_success_counter + 1 > 5
    THEN [d EXCEPT !.exploration_weight = @ - exploration_weight_step,
                   !.exploitation_success_counter = 0]
    ELSE [d EXCEPT !.exploitation_success_counter = @ + 1]

\* lines 644-651: count the success, lower the exploration weight after 5
AiCountSuccess(d) ==
    IF d.exploitation_success_counter + 1 > 5
    THEN [d EXCEPT !.exploration_weight = Max(min_exploration_weight, @ - exploration_weight_step),
                   !.exploitation_success_counter = 0]
    ELSE [d EXCEPT !.exploitation_success_counter = @ + 1]

\* lines 616-651: move toward the cluster centre, off by the random jitter,
\* with step min(step_size, max(distance * 0.5, step_size * 0.5))
AiTowardCluster(d, c, jitter) ==
    AiCountSuccess(
        [AiTarget(d, Min(d.step_size, Max(Dist(c.x - d.x_km, c.y - d.y_km) \div 2, d.step_size \div 2)),
                  Atan2Deg(c.y - d.y_km, c.x - d.x_km) + jitter)
            EXCEPT !.consecutive_steps_same_direction = 0])

\* lines 652-657: fall back to exploration and raise the exploration weight
AiFallBack(d, angle) ==
    [AiPlanExploration(d, angle) EXCEPT
        !.exploration_weight = Min(initial_exploration_weight, @ + exploration_weight_step)]

AiExploit(d, best_cluster_id, jitter, angle) ==
    IF best_cluster_id /= -1
    THEN AiTowardCluster(d, ItemOf(d.active_clusters, best_cluster_id), jitter)
    ELSE AiFallBack(d, angle)

\* _plan_exploitation
AiPlanExploitation(d, jitter, angle) == AiExploit(d, BestCluster(d), jitter, angle)

\* _move_to_target
AiMoveToTarget(d) ==
    IF d.target /= None
    THEN [d EXCEPT !.x_km = d.target[1], !.y_km = d.target[2]]
    ELSE d

\* line 448: forced exploration is due
ForcedDue(d) == d.consecutive_low_density_scans >= max_low_density_scans

\* the random draws of one step: exploit is random.random() > exploration_weight,
\* angle_change the signed turn of _plan_forced_exploration, jitter the offset of
\* _plan_exploitation, angle the heading of _plan_random_move
AiPlanMovement(d, r) ==
    IF ForcedDue(d) THEN AiPlanForcedExploration(d, r.angle_change)
    ELSE IF d.assigned_clusters /= {} /\ r.exploit THEN AiPlanExploitation(d, r.jitter, r.angle)
    ELSE AiPlanExploration(d, r.angle)

\* AIDrone.step with the random draws r
AiStepOf(d, pm, pp, r) == AiMoveToTarget(AiPlanMovement(AiSense(d, pm, pp), r))

\* the planner that sets the target in _plan_movement
PlannerOf(d, r) ==
    IF ForcedDue(d) THEN "forced_exploration"
    ELSE IF d.assigned_clusters /= {} /\ r.exploit /\ BestCluster(d) /= -1 THEN "exploitation"
    ELSE IF NoDirection(d) THEN "random_move"
    ELSE "exploration"

-----------------------------------------------------------------------------
(* AIDrone operations *)

\* bound on the number of AIDrone.step calls explored
MaxAiSteps == 7

\* constructor arguments: bounds, start positions (inside, on a corner, outside
\* the bounds), step size, ids, and the random draws of __init__
AiBounds == [min_x |-> 0, max_x |-> 100 * KM, min_y |-> 0, max_y |-> 100 * KM]
AiStarts == { <<5050, 5050>>, <<1000, 1000>>, <<10000, 10000>>, <<-500, 5000>>, <<10100, 200>> }
AiStepSize == 2 * KM
AiScanRadius == 30
AiIds == { 0, 3 }
AiHeadings == { 20, 180 }
AiDensityMap == (<<3, 7>> :> 20) @@ (<<50, 52>> :> 55)

\* the random draws of a step
ForcedTurns == { 90, 135, 180, -90, -135, -180 }
Jitters == { -30, 30 }
RandomAngles == { 0, 100, 225 }
NoDraw == [exploit |-> FALSE, angle_change |-> 90, jitter |-> 0, angle |-> 0]

AiInitWith(p, drone_id, heading) ==
    /\ ai = AiNew(p[1], p[2], AiScanRadius, AiBounds, AiStepSize, drone_id, heading, AiDensityMap)
    /\ ai_before = ai
    /\ ai_plan = "none"
    /\ ai_steps = 0

AiInit == \E p \in AiStarts, drone_id \in AiIds, heading \in AiHeadings :
              AiInitWith(p, drone_id, heading)

\* the drone of main.py's AI run with id 0
AiInitMain == AiInitWith(<<5050, 5050>>, 0, 20)

\* one call of AIDrone.step(ocean_map); s is the drone after the scan, r the
\* random draws
AiStepWith(s, r) ==
    /\ ai_steps < MaxAiSteps
    /\ ai' = AiMoveToTarget(AiPlanMovement(s, r))
    /\ ai_plan' = PlannerOf(s, r)
    /\ ai_before' = ai
    /\ ai_steps' = ai_steps + 1
    /\ UNCHANGED notAiVars

\* the step plans a forced exploration
AiStepForcedExploration ==
    \E s \in {AiSense(ai, particle_map, processed_particles)} :
        /\ ForcedDue(s)
        /\ \E angle_change \in ForcedTurns :
              AiStepWith(s, [NoDraw EXCEPT !.angle_change = angle_change])

\* the draws of _plan_random_move that matter: one when it is not reached
FallbackAngles(d) == IF NoDirection(d) THEN RandomAngles ELSE {0}

\* the step plans an exploitation: clusters are assigned and random.random()
\* exceeds the exploration weight
AiStepExploitation ==
    \E s \in {AiSense(ai, particle_map, processed_particles)} :
        /\ ~ForcedDue(s)
        /\ s.assigned_clusters /= {}
        /\ \E jitter \in Jitters, angle \in FallbackAngles(s) :
              AiStepWith(s, [NoDraw EXCEPT !.exploit = TRUE, !.jitter = jitter, !.angle = angle])

\* the step plans an exploration and finds a direction within bounds
AiStepExploration ==
    \E s \in {AiSense(ai, particle_map, processed_particles)} :
        /\ ~ForcedDue(s)
        /\ ~NoDirection(s)
        /\ AiStepWith(s, NoDraw)

\* the step plans an exploration, finds no direction and moves at random
AiStepRandomMove ==
    \E s \in {AiSense(ai, particle_map, processed_particles)} :
        /\ ~ForcedDue(s)
        /\ NoDirection(s)
        /\ \E angle \in RandomAngles : AiStepWith(s, [NoDraw EXCEPT !.angle = angle])

AiNext ==
    \/ AiStepForcedExploration
    \/ AiStepExploitation
    \/ AiStepExploration
    \/ AiStepRandomMove

-----------------------------------------------------------------------------
(* CircularDrone (src/circular_drone.py) *)

\* forward_distance by drone_id: lead drone, middle row, back row
ForwardDistance(drone_id) ==
    IF drone_id = 0 THEN 6 * KM ELSE IF drone_id \in {1, 2} THEN 9 * KM ELSE 12 * KM

\* the initial current_angle by drone_id, in degrees: 0, pi/2, 3*pi/2, pi/3, 5*pi/3
InitialAngle(drone_id) ==
    IF drone_id = 0 THEN 0
    ELSE IF drone_id = 1 THEN 90
    ELSE IF drone_id = 2 THEN 270
    ELSE IF drone_id = 3 THEN 60
    ELSE 300

\* _update_position with a catching system: the circle's centre lies
\* forward_distance ahead of center_x, center_y along heading - 90, the drone
\* on the circle at current_angle (x by the sine, y by the cosine)
CircUpdatePosition(d, system) ==
    [d EXCEPT !.x_km = d.center_x + ProjX(d.forward_distance, system.heading - 90)
                                  + ProjY(d.circle_radius, d.current_angle),
              !.y_km = d.center_y + ProjY(d.forward_distance, system.heading - 90)
                                  + ProjX(d.circle_radius, d.current_angle)]

\* CircularDrone.__init__ with catching_system = system. Line 29 hands
\* speed_km_h to Drone.__init__, which takes x_km, y_km and scan_radius only:
\* as written the call raises TypeError. CircNew is the object the constructor
\* body builds once the speed reaches Actor.__init__ (speed_km_h as passed) or
\* is left at Actor's default (speed_km_h = 0).
CircNew(x_km, y_km, center_x, center_y, orbit_radius, drone_id, system, speed_km_h) ==
    CircUpdatePosition(
        [ x_km |-> x_km, y_km |-> y_km, speed_km_h |-> speed_km_h,
          particle_data |-> 0, scanned |-> FALSE,
          center_x |-> center_x, center_y |-> center_y,
          circle_radius |-> orbit_radius + drone_id * 2 * KM,
          drone_id |-> drone_id,
          forward_distance |-> ForwardDistance(drone_id),
          current_angle |-> InitialAngle(drone_id) ],
        system)

\* lines 122-127: the centre and the drone move by (delta_x, delta_y)
CircShiftBy(d, delta_x, delta_y) ==
    [d EXCEPT !.center_x = @ + delta_x, !.center_y = @ + delta_y,
              !.x_km = @ + delta_x, !.y_km = @ + delta_y]

\* lines 113-127: the offset to the system, scaled down to max_center_movement
CircShift(d, delta_x, delta_y, center_movement_distance, max_center_movement) ==
    IF center_movement_distance > max_center_movement
    THEN CircShiftBy(d, Round(delta_x * max_center_movement, center_movement_distance),
                        Round(delta_y * max_center_movement, center_movement_distance))
    ELSE CircShiftBy(d, delta_x, delta_y)

\* lines 101-127: the centre follows the catching system at no more than 1.1
\* times the system's speed_km_h
CircFollow(d, system, seconds_elapsed) ==
    CircShift(d, system.x_km - d.center_x, system.y_km - d.center_y,
              Dist(system.x_km - d.center_x, system.y_km - d.center_y),
              Round(system.speed_km_h * seconds_elapsed * 11, 36000))

\* angle_change = speed_km_h / 3600 / max(0.5, circle_radius) * seconds_elapsed
\* radians, in whole degrees (180 / (3600 * pi) = 191 / 12000)
AngleChange(d, seconds_elapsed) ==
    Round(d.speed_km_h * seconds_elapsed * 191, 12000 * Max(KM \div 2, d.circle_radius))

\* lines 175-179: the angle advances and wraps at a full turn
CircAdvance(d, angle_change) ==
    [d EXCEPT !.current_angle = IF @ + angle_change >= 360
                                THEN (@ + angle_change) % 360 ELSE @ + angle_change]

\* _move_circular_pattern
CircMoveCircularPattern(d, system, seconds_elapsed) ==
    CircUpdatePosition(CircAdvance(d, AngleChange(d, seconds_elapsed)), system)

\* lines 137-147: a movement longer than max_drone_movement is scaled back
CircScaleBack(d, prev_x, prev_y, current_movement, max_drone_movement) ==
    IF current_movement > max_drone_movement
    THEN [d EXCEPT !.x_km = prev_x + Round((d.x_km - prev_x) * max_drone_movement,
                                           current_movement),
                   !.y_km = prev_y + Round((d.y_km - prev_y) * max_drone_movement,
                                           current_movement)]
    ELSE d

\* lines 133-147, with calculate_movement_distance of Actor
CircLimit(d, prev_x, prev_y, seconds_elapsed) ==
    CircScaleBack(d, prev_x, prev_y, Dist(d.x_km - prev_x, d.y_km - prev_y),
                  Round(d.speed_km_h * seconds_elapsed, 3600))

\* line 150: scan_area at the position reached
CircScan(d, pm, pp) == [ScanArea(d, pm, pp) EXCEPT !.scanned = TRUE]

\* CircularDrone.step: follow the system, move along the circle, limit the
\* movement, scan
CircStepOf(d, system, pm, pp, seconds_elapsed) ==
    CircScan(CircLimit(CircMoveCircularPattern(CircFollow(d, system, seconds_elapsed),
                                               system, seconds_elapsed),
                       d.x_km, d.y_km, seconds_elapsed),
             pm, pp)

-----------------------------------------------------------------------------
(* CircularDrone operations *)

\* bound on the number of CircularDrone.step calls explored
MaxCircSteps == 4

\* constructor arguments: orbit radius, drone id, speed per hour (the default
\* 100 km/h, and Actor's 0)
OrbitRadii == { 2 * KM, 3 * KM }
CircIds == 0 .. 4
CircSpeeds == { 0, 100 * KM }
\* seconds_elapsed of step(ocean_map) as the engine calls it
CircSeconds == 300

\* CircularDrone(x_km=system.x_km, y_km=system.y_km, center_x=system.x_km,
\* center_y=system.y_km, orbit_radius, drone_id, catching_system=system, speed_km_h)
CircInitWith(orbit_radius, drone_id, speed_km_h) ==
    /\ circ = CircNew(cs.x_km, cs.y_km, cs.x_km, cs.y_km, orbit_radius, drone_id, cs, speed_km_h)
    /\ circ_before = circ
    /\ circ_steps = 0

CircInit == \E orbit_radius \in OrbitRadii, drone_id \in CircIds, speed_km_h \in CircSpeeds :
                CircInitWith(orbit_radius, drone_id, speed_km_h)

\* the first drone of main.py's circular run
CircInitMain == CircInitWith(2 * KM, 0, 100 * KM)

\* one call of CircularDrone.step(ocean_map)
CircStep ==
    /\ circ_steps < MaxCircSteps
    /\ circ' = CircStepOf(circ, cs, particle_map, processed_particles, CircSeconds)
    /\ circ_before' = circ
    /\ circ_steps' = circ_steps + 1
    /\ UNCHANGED notCircVars

\* what the catching system reads of the circular drone
CircView == [x_km |-> circ.x_km, y_km |-> circ.y_km, scanned |-> circ.scanned,
             particle_data |-> circ.particle_data]

\* the engine's system.step(drones) with the circular drone as the fleet
CircSystemStep == CatchStep(<<CircView>>)

CircNext == CircStep

-----------------------------------------------------------------------------
(* AIDrone peer synchronisation (src/ai_drone.py, update_drone_positions) *)

\* distance < cluster_radius * grid_size between two cluster centres
SameCluster(c, o) ==
    (c.x - o.x) * (c.x - o.x) + (c.y - o.y) * (c.y - o.y)
        < (cluster_radius * grid_size * KM) * (cluster_radius * grid_size * KM)

\* the first entry, in dict order, whose centre is that close to c's (0 if none)
RECURSIVE FirstSimilar(_, _, _)
FirstSimilar(c, items, j) ==
    IF j > Len(items) THEN 0
    ELSE IF SameCluster(c, items[j]) THEN j
    ELSE FirstSimilar(c, items, j + 1)

\* lines 387-388, 400-401: self gives the cluster up
ShareDrop(self, other, c) ==
    <<[self EXCEPT !.assigned_clusters = @ \ {c.id}], other>>

\* self takes the cluster over and other keeps its assignment
ShareTakeKeep(self, other, c, o) ==
    IF o.id \in other.assigned_clusters
    THEN <<[self EXCEPT !.assigned_clusters = @ \cup {c.id}], other>>
    ELSE <<self, other>>

\* self takes the cluster over under the id other knows it by
ShareTakeOtherId(self, other, c, o) ==
    IF o.id \in other.assigned_clusters
    THEN <<[self EXCEPT !.assigned_clusters = @ \cup {o.id}],
           [other EXCEPT !.assigned_clusters = @ \ {o.id}]>>
    ELSE <<self, other>>

\* lines 391-393, 396-398: self takes the cluster over if other is assigned
ShareTake(self, other, c, o) ==
    IF o.id \in other.assigned_clusters
    THEN <<[self EXCEPT !.assigned_clusters = @ \cup {c.id}],
           [other EXCEPT !.assigned_clusters = @ \ {o.id}]>>
    ELSE <<self, other>>

\* lines 380-402: who handles cluster c of self, known to other as o, given
\* the distances of the two drones to c's centre (a * 0.7 as 7 * a / 10)
ShareDecide(self, other, c, o, my_distance, other_distance) ==
    IF 10 * other_distance < 7 * my_distance THEN ShareDrop(self, other, c)
    ELSE IF 10 * my_distance < 7 * other_distance THEN ShareTake(self, other, c, o)
    ELSE IF self.drone_id < other.drone_id THEN ShareTake(self, other, c, o)
    ELSE ShareDrop(self, other, c)

ShareResolve(self, other, c, o) ==
    ShareDecide(self, other, c, o,
                Dist(self.x_km - c.x, self.y_km - c.y),
                Dist(other.x_km - c.x, other.y_km - c.y))

\* lines 405-408: hand an unknown, significant cluster to other under the id
\* self.cluster_id_counter
ShareGive(self, other, c) ==
    IF c.density > min_cluster_density
    THEN <<[self EXCEPT !.cluster_id_counter = @ + 1],
           [other EXCEPT !.active_clusters =
                ItemsPut(@, self.cluster_id_counter, [c EXCEPT !.id = self.cluster_id_counter])]>>
    ELSE <<self, other>>

\* lines 365-408: one round of the first loop, p = <<self, other>>
ShareOne(p, c, j) ==
    IF j > 0 THEN ShareResolve(p[1], p[2], c, p[2].active_clusters[j])
    ELSE ShareGive(p[1], p[2], c)

\* the first loop runs over self.active_clusters, which it does not change
RECURSIVE ShareOwn(_, _)
ShareOwn(p, i) ==
    IF i > Len(p[1].active_clusters) THEN p
    ELSE ShareOwn(ShareOne(p, p[1].active_clusters[i],
                           FirstSimilar(p[1].active_clusters[i], p[2].active_clusters, 1)),
                  i + 1)

\* lines 427-429: take over an unknown, significant cluster of other
LearnOne(self, other, o) ==
    IF FirstSimilar(o, self.active_clusters, 1) = 0 /\ o.density > min_cluster_density
    THEN <<[self EXCEPT !.active_clusters =
                ItemsPut(@, self.cluster_id_counter, [o EXCEPT !.id = self.cluster_id_counter]),
                        !.cluster_id_counter = @ + 1],
           other>>
    ELSE <<self, other>>

\* lines 410-429: the second loop runs over other.active_clusters
RECURSIVE LearnFrom(_, _)
LearnFrom(p, j) ==
    IF j > Len(p[2].active_clusters) THEN p
    ELSE LearnFrom(LearnOne(p[1], p[2], p[2].active_clusters[j]), j + 1)

\* _share_cluster_info(other_drone): the pair <<self, other>> afterwards
ShareClusterInfo(self, other) == LearnFrom(ShareOwn(<<self, other>>, 1), 1)

\* lines 182-192: the sectors the drone may be reassigned to, the fleet being
\* self and other
SectorCount(self, other, s) ==
    (IF self.sector_preference = s THEN 1 ELSE 0) + (IF other.sector_preference = s THEN 1 ELSE 0)
MinSectorCount(self, other) ==
    CHOOSE m \in 0..2 : /\ \E s \in 0..3 : SectorCount(self, other, s) = m
                        /\ \A s \in 0..3 : SectorCount(self, other, s) >= m
NewSectors(self, other) ==
    { s \in 0..3 : /\ SectorCount(self, other, s) = MinSectorCount(self, other)
                   /\ s /= self.sector_preference }

\* the values random.choice may give sector_preference (lines 177-196)
SectorChoices(self, other) ==
    IF other.sector_preference = self.sector_preference /\ self.drone_id > other.drone_id
       /\ NewSectors(self, other) /= {}
    THEN NewSectors(self, other)
    ELSE {self.sector_preference}

\* update_drone_positions([self, other]), lines 163-173: the position of the
\* other drone and the exchange of clusters; the pair <<self, other>> afterwards
AiUpdateShare(self, other) ==
    IF other.drone_id /= self.drone_id
    THEN ShareClusterInfo([self EXCEPT !.other_drone_positions =
                               <<[x |-> other.x_km, y |-> other.y_km]>>], other)
    ELSE <<[self EXCEPT !.other_drone_positions = <<>>], other>>

\* lines 194-196: the drawn sector (sector_boundaries follow from it)
AiReassign(self, sector) == [self EXCEPT !.sector_preference = sector]

-----------------------------------------------------------------------------
(* Peer synchronisation operations: two AIDrones A and B at fixed positions *)

\* bound on the number of synchronisation calls explored
MaxPeerCalls == 3

\* the cluster both drones may track, and a second one far from it
SharedCentre == [x |-> 50 * KM, y |-> 50 * KM]
ClusterAt(id, x, y, density) == [id |-> id, x |-> x, y |-> y, density |-> density, steps |-> 0]

\* what a drone knows of the clusters before the calls: nothing, the shared
\* cluster at its centre or a kilometre off it, the shared and a far cluster,
\* two clusters far from the shared one
ClusterLayouts ==
    { <<>>,
      <<ClusterAt(0, 50 * KM, 50 * KM, DensityOne)>>,
      <<ClusterAt(0, 51 * KM, 50 * KM, DensityOne)>>,
      <<ClusterAt(0, 20 * KM, 80 * KM, DensityOne), ClusterAt(1, 50 * KM, 50 * KM, DensityOne)>>,
      <<ClusterAt(0, 20 * KM, 80 * KM, DensityOne), ClusterAt(1, 80 * KM, 20 * KM, DensityOne)>> }

PeerStartsA == { <<40 * KM, 50 * KM>>, <<50 * KM, 48 * KM>> }
PeerStartsB == { <<60 * KM, 50 * KM>>, <<50 * KM, 52 * KM>>, <<50 * KM, 55 * KM>> }
PeerIds == { <<0, 1>>, <<1, 0>>, <<4, 0>> }

\* a drone that has scanned and exchanged before: it tracks the clusters of
\* the layout and is assigned those of the set assigned
PeerNew(p, drone_id, layout, assigned) ==
    [AiNew(p[1], p[2], AiScanRadius, AiBounds, AiStepSize, drone_id, 20, AiDensityMap)
        EXCEPT !.active_clusters = layout,
               !.cluster_id_counter = Len(layout),
               !.assigned_clusters = assigned]

PeerInitWith(pa, pb, ids, la, lb, aa, ab) ==
    /\ peerA = PeerNew(pa, ids[1], la, aa)
    /\ peerB = PeerNew(pb, ids[2], lb, ab)
    /\ peer_calls = <<>>
    /\ peer_before = <<peerA, peerB>>

PeerInit ==
    \E pa \in PeerStartsA, pb \in PeerStartsB, ids \in PeerIds,
       la \in ClusterLayouts, lb \in ClusterLayouts :
       \E aa \in SUBSET ItemIds(la), ab \in SUBSET ItemIds(lb) :
          PeerInitWith(pa, pb, ids, la, lb, aa, ab)

\* the two drones of the other specifications: never synchronised
PeerInitMain ==
    PeerInitWith(<<40 * KM, 50 * KM>>, <<60 * KM, 50 * KM>>, <<0, 1>>, <<>>, <<>>, {}, {})

\* A._share_cluster_info(B)
PeerShareAB ==
    /\ Len(peer_calls) < MaxPeerCalls
    /\ \E p \in {ShareClusterInfo(peerA, peerB)} : peerA' = p[1] /\ peerB' = p[2]
    /\ peer_calls' = Append(peer_calls, "share_ab")
    /\ peer_before' = <<peerA, peerB>>
    /\ UNCHANGED notPeerVars

\* B._share_cluster_info(A)
PeerShareBA ==
    /\ Len(peer_calls) < MaxPeerCalls
    /\ \E p \in {ShareClusterInfo(peerB, peerA)} : peerB' = p[1] /\ peerA' = p[2]
    /\ peer_calls' = Append(peer_calls, "share_ba")
    /\ peer_before' = <<peerA, peerB>>
    /\ UNCHANGED notPeerVars

\* SimulationEngine.step, lines 78-81, for the fleet [A, B]:
\* A.update_drone_positions(drones), then B.update_drone_positions(drones)
PeerSync ==
    /\ Len(peer_calls) < MaxPeerCalls
    /\ \E p \in {AiUpdateShare(peerA, peerB)} :
          \E sa \in SectorChoices(p[1], p[2]) :
             \E q \in {AiUpdateShare(p[2], AiReassign(p[1], sa))} :
                \E sb \in SectorChoices(q[1], q[2]) :
                   /\ peerB' = AiReassign(q[1], sb)
                   /\ peerA' = q[2]
    /\ peer_calls' = Append(peer_calls, "sync")
    /\ peer_before' = <<peerA, peerB>>
    /\ UNCHANGED notPeerVars

PeerNext == PeerShareAB \/ PeerShareBA \/ PeerSync

-----------------------------------------------------------------------------
(* Sector coordination in a fleet of AIDrones (update_drone_positions) *)

\* bound on the number of sync rounds explored
MaxSyncRounds == 2

\* lines 182-185: the number of drones of the list f that prefer sector s
SectorCounts(f, s) == Cardinality({k \in 1..Len(f) : f[k].sector_preference = s})

\* lines 188-189: the sectors with the fewest drones
LeastCrowdedSectors(f) ==
    {s \in 0..3 : \A t \in 0..3 : SectorCounts(f, s) <= SectorCounts(f, t)}

\* any sector but the current one, crowded or not
NewSectorsAny(f, i) == (0..3) \ {f[i].sector_preference}

\* line 192: the least crowded sectors that are not the current one of drone i
NewSectorsOf(f, i) == LeastCrowdedSectors(f) \ {f[i].sector_preference}

\* the list with drones i and j replaced by the pair p
WithPair(f, i, j, p) == [f EXCEPT ![i] = p[1], ![j] = p[2]]

\* lines 169-173: drone i stores the position of drone j and shares clusters
MeetDrone(f, i, j) ==
    WithPair(f, i, j,
             ShareClusterInfo([f[i] EXCEPT !.other_drone_positions =
                                  Append(@, [x |-> f[j].x_km, y |-> f[j].y_km])], f[j]))

\* lines 177-196: drone i, sharing its sector with drone j of lower id, draws
\* one of the new sectors; the lists that may result
CoordinateSectors(f, i, j) ==
    IF /\ f[j].sector_preference = f[i].sector_preference
       /\ f[i].drone_id > f[j].drone_id
       /\ NewSectorsOf(f, i) /= {}
    THEN {[f EXCEPT ![i] = AiReassign(f[i], s)] : s \in NewSectorsOf(f, i)}
    ELSE {f}

\* lines 167-196: one pass of the loop over the drones, for drone j
VisitDrone(f, i, j) ==
    IF f[j].drone_id /= f[i].drone_id THEN CoordinateSectors(MeetDrone(f, i, j), i, j) ELSE {f}

RECURSIVE VisitFrom(_, _, _)
VisitFrom(f, i, j) ==
    IF j > Len(f) THEN {f}
    ELSE UNION {VisitFrom(g, i, j + 1) : g \in VisitDrone(f, i, j)}

\* f[i].update_drone_positions(f): the lists that may result
UpdateDronePositions(f, i) ==
    VisitFrom([f EXCEPT ![i] = [@ EXCEPT !.other_drone_positions = <<>>]], i, 1)

\* the ids drones are built with: drone_id % 4 is the first sector preference,
\* so four of these ids start in one sector
SyncIdPool == {0, 1, 4, 8, 12}
SyncIds(n) == {ids \in [1..n -> SyncIdPool] : \A a, b \in 1..n : a /= b => ids[a] /= ids[b]}

\* where drone k of the list starts, and what it tracks: the first drone knows
\* a cluster
SyncStart(k) == <<(20 + 15 * k) * KM, 50 * KM>>
SyncLayout(k) == IF k = 1 THEN <<ClusterAt(0, 50 * KM, 50 * KM, DensityOne)>> ELSE <<>>

SyncInitWith(n, ids) ==
    /\ fleet = [k \in 1..n |-> PeerNew(SyncStart(k), ids[k], SyncLayout(k), ItemIds(SyncLayout(k)))]
    /\ sync_i = 1
    /\ sync_calls = 0

SyncInit == \E n \in 2..4 : \E ids \in SyncIds(n) : SyncInitWith(n, ids)

\* the fleet of the other specifications: no AIDrones
SyncInitMain == SyncInitWith(0, <<>>)

\* SimulationEngine.step, lines 78-81: the next call of the loop
\* "for drone in self.drones: drone.update_drone_positions(self.drones)"
SyncUpdate ==
    /\ sync_calls < MaxSyncRounds * Len(fleet)
    /\ fleet' \in UpdateDronePositions(fleet, sync_i)
    /\ sync_i' = IF sync_i = Len(fleet) THEN 1 ELSE sync_i + 1
    /\ sync_calls' = sync_calls + 1
    /\ UNCHANGED notSyncVars

-----------------------------------------------------------------------------
(* SimulationEngine (src/simulation_engine.py) *)

\* SimulationEngine.__init__(ocean_map, drones, catching_systems): drones is
\* the fleet, named by the kind of each drone object; of the time series the
\* cumulative catch and the cumulative catch of the one system are kept, the
\* others and the trajectories kept for plotting are left out
EngineNew(drones) ==
    [ drones |-> drones,
      current_step |-> 0,
      stats |-> [total_steps |-> 0, total_particles_detected |-> 0,
                 total_particles_processed |-> 0],
      cumulative_caught |-> <<0>>, system_cumulative_caught |-> <<0>>,
      time_step_seconds |-> 300, elapsed_time_in_seconds |-> 0,
      pc |-> "idle", i |-> 1, total_particles_processed |-> 0,
      returned |-> [step |-> 0, particles_detected |-> 0, particles_processed |-> 0] ]

\* update_drone_positions(drones) of an AIDrone that is the only AIDrone of
\* the fleet: the positions are cleared and no other drone passes the test
AiUpdateAlone(d) == [d EXCEPT !.other_drone_positions = <<>>]

\* what system.step(self.drones, ...) reads of drone number k of the fleet
FleetView(kind) ==
    IF kind = "lawn" THEN DroneView(lawn.x_km, lawn.y_km, lawn.particle_data)
    ELSE IF kind = "ai" THEN DroneView(ai.x_km, ai.y_km, ai.particle_data)
    ELSE DroneView(circ.x_km, circ.y_km, circ.particle_data)

FleetViews(drones) == [k \in 1..Len(drones) |-> FleetView(drones[k])]

\* lines 133-134: the statistics after the systems have stepped
EngineStats(e) ==
    [e.stats EXCEPT !.total_particles_detected = e.current_step,
                    !.total_particles_processed = @ + e.total_particles_processed]

\* lines 116-117 and 139: a cumulative series gets its last entry plus amount
Accumulate(series, amount) == Append(series, series[Len(series)] + amount)

\* lines 159-163: the dict step() returns
EngineReturned(e) ==
    [step |-> e.current_step, particles_detected |-> e.current_step,
     particles_processed |-> e.total_particles_processed]

-----------------------------------------------------------------------------
(* SimulationEngine operations *)

\* bound on the number of SimulationEngine.step calls explored
MaxEngineSteps == 3

\* a dataset of two time slices: particles at the map centre, then away from it
DatasetD ==
    << << <<50, 50>>, <<50, 50>>, <<50, 49>>, <<0, 0>>, <<100, 100>> >>,
       << <<52, 50>>, <<52, 50>>, <<50, 50>>, <<0, 0>>, <<100, 100>> >> >>

EngineDatasets == { DatasetC, DatasetD }

\* the fleets: one lawnmower drone, one adaptive drone, a lawnmower and a
\* circular drone
EngineFleets == { <<"lawn">>, <<"ai">>, <<"lawn", "circ">> }

\* the random draws handed to the adaptive drone's step
EngineDraws == { [exploit |-> e, angle_change |-> 135, jitter |-> 30, angle |-> 100] :
                 e \in BOOLEAN }

EngineInitWith(drones) ==
    /\ eng = EngineNew(drones)
    /\ eng_calls = <<>>
    /\ eng_returns = <<>>
    /\ eng_syncs = <<>>

EngineInit == \E drones \in EngineFleets : EngineInitWith(drones)

\* the engine of the other specifications: built and never stepped
EngineInitMain == EngineInitWith(<<"lawn">>)

\* step(), lines 66-81: the elapsed time, ocean_map.step(), and every fifth
\* current_step the update_drone_positions of the drones that have one
EngineBegin ==
    /\ eng.pc = "idle"
    /\ Len(eng_returns) < MaxEngineSteps
    /\ particle_map' = ParticleMapAt(zarr, current_time_index)
    /\ current_time_index' = (current_time_index + 1) % NumTimeSteps(zarr)
    /\ map_call' = [op |-> "step", point |-> <<0, 0>>, amount |-> 0, ret |-> 0]
    /\ deplete_streak' = NoStreak
    /\ map_ncalls' = map_ncalls + 1
    /\ map_nsteps' = map_nsteps + 1
    /\ UNCHANGED <<zarr, processed_particles, map_targets>>
    /\ IF eng.current_step % 5 = 0 /\ \E k \in 1..Len(eng.drones) : eng.drones[k] = "ai"
       THEN /\ ai' = AiUpdateAlone(ai)
            /\ eng_syncs' = Append(eng_syncs, Len(eng_returns) + 1)
            /\ UNCHANGED <<ai_before, ai_plan, ai_steps>>
       ELSE UNCHANGED <<aiVars, eng_syncs>>
    /\ eng' = [eng EXCEPT !.elapsed_time_in_seconds = @ + eng.time_step_seconds,
                          !.pc = "drones", !.i = 1, !.total_particles_processed = 0]
    /\ eng_calls' = <<"ocean_map">>
    /\ UNCHANGED <<eng_returns, csVars, lawnVars, circVars, peerVars, syncVars>>

\* the engine goes to the systems after the first drone of the fleet
EngineAfterDroneSkip ==
    /\ eng' = [eng EXCEPT !.i = @ + 1, !.pc = "systems"]
    /\ eng_calls' = Append(eng_calls, "drone")
    /\ UNCHANGED <<eng_returns, eng_syncs>>

\* the engine moves on to the next drone, or to the systems after the last
EngineAfterDrone ==
    /\ eng' = [eng EXCEPT !.i = @ + 1,
                          !.pc = IF eng.i = Len(eng.drones) THEN "systems" ELSE "drones"]
    /\ eng_calls' = Append(eng_calls, "drone")
    /\ UNCHANGED <<eng_returns, eng_syncs>>

\* step(), lines 88-103, for a LawnmowerDrone: drone.step(self.ocean_map)
EngineLawnStep ==
    /\ eng.pc = "drones" /\ eng.drones[eng.i] = "lawn"
    /\ lawn' = LawnStepOf(lawn, particle_map, processed_particles)
    /\ lawn_before' = lawn
    /\ lawn_steps' = lawn_steps + 1
    /\ UNCHANGED lawn_start
    /\ EngineAfterDrone
    /\ UNCHANGED <<mapVars, csVars, aiVars, circVars, peerVars, syncVars>>

\* step(), lines 88-103, for an AIDrone
EngineAiStep ==
    /\ eng.pc = "drones" /\ eng.drones[eng.i] = "ai"
    /\ \E s \in {AiSense(ai, particle_map, processed_particles)}, r \in EngineDraws :
          /\ ai' = AiMoveToTarget(AiPlanMovement(s, r))
          /\ ai_plan' = PlannerOf(s, r)
    /\ ai_before' = ai
    /\ ai_steps' = ai_steps + 1
    /\ EngineAfterDrone
    /\ UNCHANGED <<mapVars, csVars, lawnVars, circVars, peerVars, syncVars>>

\* step(), lines 88-103, for a CircularDrone
EngineCircStep ==
    /\ eng.pc = "drones" /\ eng.drones[eng.i] = "circ"
    /\ circ' = CircStepOf(circ, cs, particle_map, processed_particles, CircSeconds)
    /\ circ_before' = circ
    /\ circ_steps' = circ_steps + 1
    /\ EngineAfterDrone
    /\ UNCHANGED <<mapVars, csVars, lawnVars, aiVars, peerVars, syncVars>>

\* step(), lines 111-129: system.step(self.drones, self.ocean_map) of the one
\* catching system; an exception of the system leaves step()
EngineSystemStep ==
    /\ eng.pc = "systems"
    /\ \E s \in {CsStep(cs, FleetViews(eng.drones), particle_map, processed_particles)} :
          /\ cs' = s
          /\ eng' = [eng EXCEPT !.pc = IF s.raised THEN "raised" ELSE "record",
                                !.total_particles_processed = @ + s.current_load,
                                !.system_cumulative_caught =
                                    IF s.raised THEN @ ELSE Accumulate(@, s.current_load)]
    /\ cs_before' = cs
    /\ cs_steps' = cs_steps + 1
    /\ cs_returned' = CsReturnedAfter(cs_returned, cs')
    /\ eng_calls' = Append(eng_calls, "system")
    /\ UNCHANGED <<eng_returns, eng_syncs, mapVars, lawnVars, aiVars, circVars, peerVars, syncVars>>

\* step(), lines 131-163: the statistics and the returned dict
EngineReturn ==
    /\ eng.pc = "record"
    /\ eng' = [eng EXCEPT !.stats = EngineStats(eng), !.returned = EngineReturned(eng),
                          !.cumulative_caught = Accumulate(@, eng.total_particles_processed),
                          !.pc = "idle"]
    /\ eng_returns' = Append(eng_returns, EngineReturned(eng).step)
    /\ UNCHANGED <<eng_calls, eng_syncs, mapVars, csVars, lawnVars, aiVars, circVars, peerVars, syncVars>>

EngineNext ==
    \/ EngineBegin
    \/ EngineLawnStep
    \/ EngineAiStep
    \/ EngineCircStep
    \/ EngineSystemStep
    \/ EngineReturn

-----------------------------------------------------------------------------
(* Specifications *)

\* the objects a simulation is built from, each called in any order
Init == MapInit /\ CatchInit /\ LawnInit /\ AiInit /\ CircInit /\ EngineInit /\ PeerInit
        /\ SyncInit
Next == MapNext \/ CatchNext \/ LawnNext \/ AiNext \/ CircNext \/ CircSystemStep \/ EngineNext
           \/ PeerNext \/ SyncUpdate
Spec == Init /\ [][Next]_vars

\* the density field alone
InitMap == MapInit /\ CatchInitMain /\ LawnInitMain /\ AiInitMain /\ CircInitMain
           /\ EngineInitMain /\ PeerInitMain /\ SyncInitMain
SpecMap == InitMap /\ [][MapNext]_vars

\* a catching system stepping on the field loaded from DatasetC
InitCatch == MapInitWith(DatasetC) /\ CatchInit /\ LawnInitMain /\ AiInitMain /\ CircInitMain
             /\ EngineInitMain /\ PeerInitMain /\ SyncInitMain
SpecCatch == InitCatch /\ [][CatchNext]_vars

\* a lawnmower drone scanning the field loaded from DatasetC
InitLawn == MapInitWith(DatasetC) /\ CatchInitMain /\ LawnInit /\ AiInitMain /\ CircInitMain
            /\ EngineInitMain /\ PeerInitMain /\ SyncInitMain
SpecLawn == InitLawn /\ [][LawnNext]_vars

\* an adaptive drone scanning the field loaded from DatasetC
InitAI == MapInitWith(DatasetC) /\ CatchInitMain /\ LawnInitMain /\ AiInit /\ CircInitMain
          /\ EngineInitMain /\ PeerInitMain /\ SyncInitMain
SpecAI == InitAI /\ [][AiNext]_vars

\* a circular drone and the catching system it tracks, on the field loaded from
\* DatasetC
InitCirc == MapInitWith(DatasetC) /\ CatchInit /\ LawnInitMain /\ AiInitMain /\ CircInit
            /\ EngineInitMain /\ PeerInitMain /\ SyncInitMain
NextCirc == CircStep \/ CircSystemStep
SpecCirc == InitCirc /\ [][NextCirc]_vars

\* a simulation engine stepping the field, a fleet and a catching system
InitEngine ==
    /\ \E ds \in EngineDatasets : MapInitWith(ds)
    /\ CatchInit /\ LawnInitMain /\ AiInitMain /\ CircInitMain /\ EngineInit /\ PeerInitMain /\ SyncInitMain
SpecEngine == InitEngine /\ [][EngineNext]_vars

\* two adaptive drones exchanging cluster information
InitPeer ==
    /\ MapInitWith(DatasetC) /\ CatchInitMain /\ LawnInitMain /\ AiInitMain /\ CircInitMain
    /\ EngineInitMain /\ PeerInit /\ SyncInitMain
SpecPeer == InitPeer /\ [][PeerNext]_vars

\* a fleet of adaptive drones coordinating their sectors
InitSync ==
    /\ MapInitWith(DatasetC) /\ CatchInitMain /\ LawnInitMain /\ AiInitMain /\ CircInitMain
    /\ EngineInitMain /\ PeerInitMain /\ SyncInit
SpecSync == InitSync /\ [][SyncUpdate]_vars

-----------------------------------------------------------------------------
(* Properties of the density field (OceanMap) *)

\* C1: after any sequence of step() and process_particles_at_location calls
\* with amount >= 0, get_particles_in_area returns a value in [0,1] for every
\* polygon, also for polygons whose centroid is in an empty cell or outside
\* the map; so does every value a query call returned.
C1_QueryInUnitRange ==
    /\ \A polygon \in Polygons :
          /\ get_particles_in_area(polygon) >= 0
          /\ get_particles_in_area(polygon) <= DensityOne
    /\ map_call.op = "query" => (map_call.ret >= 0 /\ map_call.ret <= DensityOne)

\* a query of a point right of the map returned, after a step() and a depletion
C1_Witness ==
    /\ map_call.op = "query"
    /\ map_call.point = <<10050, 50>>
    /\ processed_particles /= EmptyDict
    /\ current_time_index /= 1

\* C2: process_particles_at_location with amount >= 0 never removes more than
\* existed: the target cell's new effective density is old - min(amount, old)
\* and >= 0, and the returned total is at most the sum of the effective
\* densities of the target cell and its neighbourhood before the call.
C2_DepletionBounded ==
    [][map_call'.op = "process" =>
         LET key == CellOf(map_call'.point[1], map_call'.point[2])
             amount == map_call'.amount
             old == CurrentDensity(particle_map, processed_particles, key)
             new == CurrentDensity(particle_map', processed_particles', key)
             held == old + SumOver([n \in Neighbours(key) |->
                                      CurrentDensity(particle_map, processed_particles, n)],
                                   Neighbours(key))
         IN /\ new = old - Min(amount, old)
            /\ new >= 0
            /\ map_call'.ret <= held]_vars

\* a call asked for more than the cell held and removed exactly what it held
C2_Witness ==
    /\ map_call.op = "process"
    /\ map_call.ret > 0
    /\ map_call.ret < map_call.amount
    /\ CurrentDensity(particle_map, processed_particles,
                      CellOf(map_call.point[1], map_call.point[2])) = 0

\* C3: for repeated process_particles_at_location calls at the same point with
\* no step() in between, the density get_particles_in_area returns at that
\* point is non-increasing from call to call, strictly decreasing while it is
\* > 0 and amount > 0, and stays 0 once it is 0.
C3_RepeatedDepletionMonotone ==
    [][(/\ map_call'.op = "process"
        /\ deplete_streak.n > 0
        /\ deplete_streak.point = map_call'.point) =>
         LET before == deplete_streak.density
             after == GetParticlesInAreaOn(particle_map', processed_particles',
                                           PointPolygon(map_call'.point))
         IN /\ after <= before
            /\ (before > 0 /\ map_call'.amount > 0) => after < before
            /\ before = 0 => after = 0]_vars

\* three calls in a row at one point, the density there went down to 0
C3_Witness ==
    /\ map_call.op = "process"
    /\ map_call.amount > 0
    /\ deplete_streak.n >= 3
    /\ deplete_streak.density = 0
    /\ Has(particle_map, CellOf(deplete_streak.point[1], deplete_streak.point[2]))

-----------------------------------------------------------------------------
(* Properties of the collection vehicle (CatchingSystem) *)

\* unsigned shortest angular difference of two headings, 0..180
AngDist(a, b) == Min((a - b) % 360, 360 - ((a - b) % 360))

\* a step() call has been made and returned (the last transition was a step)
CsStepped == cs_steps' = cs_steps + 1 /\ ~cs'.raised

\* the heading h for which the position update (along h - 90) points from
\* position <<x, y>> to the target
BearingOf(x, y, target) == (Atan2Deg(target[2] - y, target[1] - x) + 90) % 360

\* C4: in every CatchingSystem.step, under every strategy and target, the
\* shortest angular difference between the heading after the step and the
\* heading before it is at most max_turn_angle in absolute value.
C4_TurnRateLimited ==
    [][cs_steps' = cs_steps + 1 =>
          AngDist(cs'.heading, cs.heading) <= cs.max_turn_angle]_vars

\* a step whose target asked for a larger turn than the limit
C4_Witness ==
    /\ cs_steps >= 1 /\ ~cs.raised
    /\ Abs(SignedDiff(TargetHeading(cs.target_position[2] - cs_before.y_km,
                                    cs.target_position[1] - cs_before.x_km)
                      - cs_before.heading)) > cs.max_turn_angle
    /\ AngDist(cs.heading, cs_before.heading) = cs.max_turn_angle

\* C5: every step that does not raise displaces the position by exactly
\* move_speed along the heading held after the clamped turn, also within the
\* capture radius of the target; the vehicle is never stationary across a tick.
C5_AlwaysAdvances ==
    [][CsStepped =>
          LET dx == cs'.x_km - cs.x_km
              dy == cs'.y_km - cs.y_km
          IN /\ dx = ProjX(cs.move_speed, cs'.heading - 90)
             /\ dy = ProjY(cs.move_speed, cs'.heading - 90)
             /\ Abs(Dist(dx, dy) - cs.move_speed) <= 1
             /\ <<dx, dy>> /= <<0, 0>>]_vars

\* a step made within the capture radius (0.5 km) of the target steered by
C5_Witness ==
    /\ cs_steps >= 1 /\ ~cs.raised
    /\ cs.move_speed > 0
    /\ Dist(cs.target_position[1] - cs_before.x_km,
            cs.target_position[2] - cs_before.y_km) * 2 < KM
    /\ <<cs.x_km, cs.y_km>> /= <<cs_before.x_km, cs_before.y_km>>

\* C6: steering computes the heading toward the target: when the heading needed
\* to face the target differs from the current heading by at most
\* max_turn_angle, the heading after the step is the bearing of the target in
\* the convention of the position update, and the distance to a target farther
\* away than move_speed strictly decreases.
C6_SteersTowardTarget ==
    [][CsStepped =>
          LET target == cs'.target_position
              bearing == BearingOf(cs.x_km, cs.y_km, target)
              before == Dist(target[1] - cs.x_km, target[2] - cs.y_km)
              after == Dist(target[1] - cs'.x_km, target[2] - cs'.y_km)
          IN (before > 0 /\ AngDist(bearing, cs.heading) <= cs.max_turn_angle) =>
                /\ cs'.heading = bearing
                /\ before > cs.move_speed => after < before]_vars

\* C7: when the heading needed to face the target exceeds the turn limit, the
\* heading changes by exactly max_turn_angle in one tick; with heading 0, max
\* turn 15 and a target directly behind (heading 180 needed) the heading after
\* one tick is 15.
C7_ClampedTurnExact ==
    [][CsStepped =>
          LET target == cs'.target_position
              needed == BearingOf(cs.x_km, cs.y_km, target)
          IN (<<cs.x_km, cs.y_km>> /= target
              /\ AngDist(needed, cs.heading) > cs.max_turn_angle) =>
                /\ AngDist(cs'.heading, cs.heading) = cs.max_turn_angle
                /\ (cs.heading = 0 /\ cs.max_turn_angle = 15 /\ needed = 180)
                      => cs'.heading = 15]_vars

\* C20: OceanMap.step() rotates through the T time slices of the dataset: the
\* particle map right after construction is that of slice 0, the n-th call of
\* step() loads slice n mod T, so the slices come in index order with period
\* T, and the particle map after a step is a function of the slice index
\* alone (the same map recurs every T steps).
C20_SliceRotation ==
    /\ particle_map = ParticleMapAt(zarr, map_nsteps % NumTimeSteps(zarr))
    /\ current_time_index = (map_nsteps + 1) % NumTimeSteps(zarr)

\* the fourth step() on a dataset of three slices has loaded slice 1 again,
\* which differs from slices 0 and 2
C20_Witness ==
    /\ NumTimeSteps(zarr) = 3
    /\ map_nsteps = 4
    /\ particle_map = ParticleMapAt(zarr, 1)
    /\ ParticleMapAt(zarr, 1) /= ParticleMapAt(zarr, 0)
    /\ ParticleMapAt(zarr, 1) /= ParticleMapAt(zarr, 2)

C21_Totals ==
    /\ cs.total_collected >= 0
    /\ cs.total_collected = cs_returned

C21_Tick ==
    cs_steps' = cs_steps + 1 =>
        /\ cs'.current_load =
              cs.move_speed * cs.system_span * cs.retention_efficiency
                 * GetParticlesInAreaOn(particle_map, processed_particles,
                                        PointPolygon(<<cs.x_km, cs.y_km>>))
        /\ cs'.current_load >= 0
        /\ cs'.total_collected = cs.total_collected + cs'.current_load

\* C21: the amount a CatchingSystem collects in a step equals move_speed *
\* system_span * retention_efficiency * the ground-truth density of the field
\* at the position it holds when the step begins, is never negative, and
\* total_collected grows by exactly that amount; total_collected is therefore
\* non-decreasing and always equals the sum of the amounts step has returned.
C21_CollectionAccounting ==
    /\ []C21_Totals
    /\ [][C21_Tick]_vars

\* the vehicle lies within the map rectangle [0, 100] x [0, 100]
CsOnMap(s) ==
    /\ 0 <= s.x_km /\ s.x_km <= MapLimit * KM
    /\ 0 <= s.y_km /\ s.y_km <= MapLimit * KM

\* C11: the position of a CatchingSystem after every step lies within the map
\* rectangle [0, 100] x [0, 100]; a move that would carry the vehicle out of
\* the map is clamped rather than carried out or raising.
C11_VehicleOnMap == (cs_steps >= 1 /\ ~cs.raised) => CsOnMap(cs)

\* C12: an unknown navigation strategy name is rejected when the CatchingSystem
\* is constructed: no object with a strategy outside random, drone, optimal
\* exists, so no step is ever run with one and no error is raised mid-run.
C12_UnknownStrategyRejected ==
    cs_steps >= 1 => (cs.strategy \in Strategies /\ ~cs.raised)

-----------------------------------------------------------------------------
(* Properties of the fixed-pattern drone (LawnmowerDrone) *)

InBounds(d) ==
    /\ d.min_x <= d.x_km /\ d.x_km <= d.max_x
    /\ d.min_y <= d.y_km /\ d.y_km <= d.max_y

\* the constructor placed the drone inside its bounds
LawnStartedInside ==
    /\ lawn.min_x <= lawn_start[1] /\ lawn_start[1] <= lawn.max_x
    /\ lawn.min_y <= lawn_start[2] /\ lawn_start[2] <= lawn.max_y

\* C9: a LawnmowerDrone that starts inside its bounds is inside them after
\* every step, for any number of steps, any positive horizontal and vertical
\* step sizes and any initial directions.
C9_LawnmowerInBounds ==
    (LawnStartedInside /\ lawn_steps >= 1) => InBounds(lawn)

\* the drone has turned at both horizontal boundaries and has just reversed at
\* the lower vertical boundary: it is on that boundary, moving up again
C9_Witness ==
    /\ LawnStartedInside
    /\ lawn.completed_rows >= 3
    /\ lawn.horizontal_step /= lawn.vertical_step
    /\ lawn_before.vertical_direction < 0
    /\ lawn.vertical_direction > 0
    /\ lawn.y_km = lawn.min_y
    /\ lawn_before.y_km > lawn.min_y

\* the x a step's horizontal move arrives at, before any clamping
LawnMovedX(d) == d.x_km + d.direction * d.horizontal_step
LawnTurnsWest(d) == LawnMovedX(d) >= d.max_x
LawnTurnsEast(d) == ~LawnTurnsWest(d) /\ LawnMovedX(d) <= d.min_x
\* the y after the row change of a turn, before the vertical boundary is looked at
LawnMovedY(d) ==
    IF LawnTurnsWest(d) \/ LawnTurnsEast(d)
    THEN d.y_km + d.vertical_direction * d.vertical_step ELSE d.y_km
\* that y is at or past the vertical boundary ahead
LawnHitsVertical(d) ==
    \/ d.vertical_direction > 0 /\ LawnMovedY(d) >= d.max_y
    \/ d.vertical_direction < 0 /\ LawnMovedY(d) <= d.min_y

LawnStepped == lawn_steps' = lawn_steps + 1

\* the claim as stated, of a drone that started inside its bounds: a turn
\* changes y by exactly one vertical step, and no other step changes y, a
\* direction or the row counter
C19_TurnAsStated ==
    [][(LawnStepped /\ LawnStartedInside) =>
         /\ LawnTurnsWest(lawn) =>
               /\ lawn'.x_km = lawn.max_x /\ lawn'.direction = -1
               /\ lawn'.y_km = lawn.y_km + lawn.vertical_direction * lawn.vertical_step
               /\ lawn'.completed_rows = lawn.completed_rows + 1
         /\ LawnTurnsEast(lawn) =>
               /\ lawn'.x_km = lawn.min_x /\ lawn'.direction = 1
               /\ lawn'.y_km = lawn.y_km + lawn.vertical_direction * lawn.vertical_step
               /\ lawn'.completed_rows = lawn.completed_rows + 1
         /\ ~(LawnTurnsWest(lawn) \/ LawnTurnsEast(lawn)) =>
               /\ lawn'.y_km = lawn.y_km
               /\ lawn'.direction = lawn.direction
               /\ lawn'.vertical_direction = lawn.vertical_direction
               /\ lawn'.completed_rows = lawn.completed_rows]_vars

\* C19 (amended): when a LawnmowerDrone's horizontal move reaches or crosses
\* max_x (resp. min_x), in that same step x is clamped to max_x (resp. min_x),
\* the horizontal direction becomes west (resp. east), the row counter
\* increases by exactly one and y moves one vertical step in the current
\* vertical direction; in every other step x moves one horizontal step and
\* the horizontal direction and the row counter are unchanged. In either kind
\* of step, if the y so reached is at or past the vertical boundary ahead, y
\* is set to that boundary and the vertical direction is reversed; otherwise
\* y stays as reached and the vertical direction is unchanged.
C19_TurnStep ==
    [][LawnStepped =>
         /\ LawnTurnsWest(lawn) =>
               /\ lawn'.x_km = lawn.max_x /\ lawn'.direction = -1
               /\ lawn'.completed_rows = lawn.completed_rows + 1
         /\ LawnTurnsEast(lawn) =>
               /\ lawn'.x_km = lawn.min_x /\ lawn'.direction = 1
               /\ lawn'.completed_rows = lawn.completed_rows + 1
         /\ ~(LawnTurnsWest(lawn) \/ LawnTurnsEast(lawn)) =>
               /\ lawn'.x_km = LawnMovedX(lawn)
               /\ lawn'.direction = lawn.direction
               /\ lawn'.completed_rows = lawn.completed_rows
         /\ LawnHitsVertical(lawn) =>
               /\ lawn'.y_km = IF lawn.vertical_direction > 0 THEN lawn.max_y ELSE lawn.min_y
               /\ lawn'.vertical_direction = -lawn.vertical_direction
         /\ ~LawnHitsVertical(lawn) =>
               /\ lawn'.y_km = LawnMovedY(lawn)
               /\ lawn'.vertical_direction = lawn.vertical_direction]_vars

\* a drone that started inside its bounds has turned at max_x, and the row
\* change of that turn went past max_y: it is on the corner, heading west and
\* south, one row further
C19_Witness ==
    /\ lawn_steps >= 2
    /\ LawnStartedInside
    /\ LawnTurnsWest(lawn_before)
    /\ lawn_before.y_km < lawn_before.max_y
    /\ lawn_before.y_km + lawn_before.vertical_step > lawn_before.max_y
    /\ lawn_before.vertical_direction = 1
    /\ lawn.x_km = lawn.max_x /\ lawn.y_km = lawn.max_y
    /\ lawn.direction = -1 /\ lawn.vertical_direction = -1
    /\ lawn.completed_rows = lawn_before.completed_rows + 1

-----------------------------------------------------------------------------
(* Properties of the adaptive drone (AIDrone) *)

\* C8: after every AIDrone.step, whichever planner ran (exploration,
\* exploitation, forced exploration or the random fallback) and wherever the
\* drone started, also outside the bounds, the position is within the bounds.
C8_AIDroneInBounds ==
    ai_steps >= 1 => InBounds(ai)

\* a drone that started outside the bounds found no direction to explore,
\* moved at random and is inside the bounds
C8_Witness ==
    /\ ai_steps = 1
    /\ ai_plan = "random_move"
    /\ ~InBounds(ai_before)
    /\ InBounds(ai)

C18_CounterBelowMax ==
    ai.consecutive_low_density_scans < max_low_density_scans

\* the step of a drone whose counter, raised by this step's scan, has reached
\* max_low_density_scans
C18_ForcedStep(s) ==
    (ai_steps' = ai_steps + 1
       /\ s.consecutive_low_density_scans >= max_low_density_scans) =>
        /\ ai_plan' = "forced_exploration"
        /\ AngDist(ai'.current_heading, ai.current_heading) >= 90
        /\ AngDist(ai'.current_heading, ai.current_heading) <= 180
        /\ ai'.x_km = Max(ai.min_x, Min(ai.max_x,
                          ai.x_km + ProjX((ai.step_size * 15) \div 10, ai'.current_heading)))
        /\ ai'.y_km = Max(ai.min_y, Min(ai.max_y,
                          ai.y_km + ProjY((ai.step_size * 15) \div 10, ai'.current_heading)))
        /\ ai'.consecutive_low_density_scans = 0

\* C18: whenever the consecutive low-density counter of an AIDrone reaches
\* max_low_density_scans (5) in _plan_movement, the move of that step is the
\* forced-exploration jump: the heading changes by between 90 and 180
\* degrees, the drone goes 1.5 * step_size along the new heading (to the
\* point of the bounds nearest to that, if it lies outside), neither the
\* scored exploration nor the exploitation plans the move, and the counter is
\* reset to 0; hence the counter is below max_low_density_scans after every
\* step.
C18_ForcedExploration ==
    /\ []C18_CounterBelowMax
    /\ [][C18_ForcedStep(AiSense(ai, particle_map, processed_particles))]_vars

\* a fifth scan in a row found a low density, and the drone jumped 1.5 steps
\* along a heading 135 degrees off the old one without reaching the bounds
C18_Witness ==
    /\ ai_steps >= 5
    /\ ai_plan = "forced_exploration"
    /\ ai_before.consecutive_low_density_scans = max_low_density_scans - 1
    /\ ai.consecutive_low_density_scans = 0
    /\ AngDist(ai.current_heading, ai_before.current_heading) = 135
    /\ ai.x_km = ai_before.x_km + ProjX((ai.step_size * 15) \div 10, ai.current_heading)
    /\ ai.y_km = ai_before.y_km + ProjY((ai.step_size * 15) \div 10, ai.current_heading)
    /\ InBounds(ai) /\ ai.x_km /= ai_before.x_km

-----------------------------------------------------------------------------
(* Properties of the orbit agent (CircularDrone) *)

\* the map: 0..width by 0..height kilometres
OnMap(d) ==
    /\ 0 <= d.x_km /\ d.x_km <= width * KM
    /\ 0 <= d.y_km /\ d.y_km <= height * KM

-----------------------------------------------------------------------------
(* Properties of the simulation engine (SimulationEngine) *)

\* the calls one complete step() makes on its objects, in order
EngineTickCalls(drones) ==
    <<"ocean_map">> \o [k \in 1..Len(drones) |-> "drone"] \o <<"system">>

IsPrefix(s, t) == Len(s) <= Len(t) /\ \A k \in 1..Len(s) : s[k] = t[k]

\* number of step() calls entered so far
EngineEntered == Len(eng_returns) + (IF eng.pc = "idle" THEN 0 ELSE 1)

\* number of step() calls in which drone number k of the fleet has stepped
EngineDroneStepped(k) ==
    Len(eng_returns)
      + (IF eng.pc \in {"systems", "record", "raised"} \/ (eng.pc = "drones" /\ eng.i > k)
         THEN 1 ELSE 0)

\* number of step() calls in which the catching system has stepped
EngineSystemStepped ==
    Len(eng_returns) + (IF eng.pc \in {"record", "raised"} THEN 1 ELSE 0)

StepsOf(kind) ==
    IF kind = "lawn" THEN lawn_steps ELSE IF kind = "ai" THEN ai_steps ELSE circ_steps

C13_Order ==
    /\ EngineEntered >= 1 => IsPrefix(eng_calls, EngineTickCalls(eng.drones))
    /\ eng.pc = "record" => eng_calls = EngineTickCalls(eng.drones)
    /\ map_ncalls = EngineEntered
    /\ \A k \in 1..Len(eng.drones) : StepsOf(eng.drones[k]) = EngineDroneStepped(k)
    /\ cs_steps = EngineSystemStepped

\* the last n entries of the sequence h
LastN(h, n) == [k \in 1..n |-> h[Len(h) - n + k]]

C13_SystemStep ==
    cs_steps' = cs_steps + 1 =>
        /\ UNCHANGED <<mapVars, lawnVars, aiVars, circVars>>
        /\ Len(cs'.historical_data) = Len(cs.historical_data) + Len(eng.drones)
        /\ LastN(cs'.historical_data, Len(eng.drones)) =
              [k \in 1..Len(eng.drones) |->
                  <<FleetView(eng.drones[k]).x_km, FleetView(eng.drones[k]).y_km,
                    FleetView(eng.drones[k]).particle_data>>]

C13_DroneStep ==
    (lawn_steps' # lawn_steps \/ ai_steps' # ai_steps \/ circ_steps' # circ_steps) =>
        UNCHANGED <<mapVars, csVars>>

\* C13: within one SimulationEngine.step the field is advanced exactly once
\* and before any drone steps, every drone of the fleet steps exactly once and
\* before the catching system steps, and the catching system steps exactly
\* once; the system's step reads the scan data the drones hold from this
\* step and changes neither a drone nor the field.
C13_TickOrder ==
    /\ []C13_Order
    /\ [][C13_SystemStep /\ C13_DroneStep]_vars

\* a second step() of the two-drone fleet has run to its end
C13_Witness ==
    /\ Len(eng.drones) = 2 /\ Len(eng_returns) = 2 /\ eng.pc = "idle"
    /\ eng_calls = <<"ocean_map", "drone", "drone", "system">>
    /\ Len(cs.historical_data) = 4

\* C14: the depletion caused by collection is applied to the field within the
\* step: after a SimulationEngine.step in which the catching system collected
\* a positive amount at its position, the field holds a depletion override
\* for the cell of that position, and the effective density there is lower
\* than the ground-truth density the vehicle read.
C14_DepletionAppliedInTick ==
    (eng.pc = "idle" /\ Len(eng_returns) >= 1 /\ eng.returned.particles_processed > 0) =>
        /\ CellOf(cs_before.x_km, cs_before.y_km) \in DOMAIN processed_particles
        /\ GetParticlesInAreaOn(particle_map, processed_particles,
                                PointPolygon(<<cs_before.x_km, cs_before.y_km>>))
             < GroundTruthDensity(cs_before, particle_map, EmptyDict)

\* C15: the 'step' entry of the dict SimulationEngine.step returns increases
\* by one with every call, and after n calls (run(n)) the engine's
\* current_step and stats['total_steps'] have both advanced by n.
C15_TickCounter ==
    /\ \A k \in 1..Len(eng_returns) : eng_returns[k] = eng_returns[1] + (k - 1)
    /\ eng.pc = "idle" =>
          /\ eng.current_step = Len(eng_returns)
          /\ eng.stats.total_steps = Len(eng_returns)

-----------------------------------------------------------------------------
(* Properties of the peer synchronisation of AIDrones *)

\* the drone tracks a cluster at the shared centre / is assigned to it
TracksShared(d) ==
    \E i \in 1..Len(d.active_clusters) : SameCluster(d.active_clusters[i], SharedCentre)
OwnsShared(d) ==
    \E i \in 1..Len(d.active_clusters) :
        /\ SameCluster(d.active_clusters[i], SharedCentre)
        /\ d.active_clusters[i].id \in d.assigned_clusters

\* only exchanges of the engine (A's update, then B's) have been made
OnlySyncs(calls) == \A k \in 1..Len(calls) : calls[k] = "sync"

C16_OneOwner ==
    (peer_calls /= <<>> /\ OnlySyncs(peer_calls)
       /\ TracksShared(peerA) /\ TracksShared(peerB)) =>
        (OwnsShared(peerA) /= OwnsShared(peerB))

C16_OwnerKept ==
    (peer_calls /= <<>> /\ OnlySyncs(peer_calls') /\ peer_calls' /= peer_calls
       /\ TracksShared(peerA) /\ TracksShared(peerB)) =>
        (OwnsShared(peerA') = OwnsShared(peerA) /\ OwnsShared(peerB') = OwnsShared(peerB))

\* C16: for two AIDrones A and B at fixed positions that both track a
\* spatially coincident cluster, one exchange (A.update_drone_positions, then
\* B.update_drone_positions) leaves exactly one of them assigned to that
\* cluster, whatever the assignments were before, and every further exchange
\* leaves that owner unchanged.
C16_SingleOwnerAfterExchange ==
    /\ []C16_OneOwner
    /\ [][C16_OwnerKept]_vars

\* C17: for two AIDrones A and B with fixed positions that track a shared
\* cluster, the assigned_clusters of A and of B after A._share_cluster_info(B)
\* are the same as after B._share_cluster_info(A), for every combination of
\* prior assignments.
C17_ShareCommutes ==
    (TracksShared(peerA) /\ TracksShared(peerB)) =>
        /\ ShareClusterInfo(peerA, peerB)[1].assigned_clusters
              = ShareClusterInfo(peerB, peerA)[2].assigned_clusters
        /\ ShareClusterInfo(peerA, peerB)[2].assigned_clusters
              = ShareClusterInfo(peerB, peerA)[1].assigned_clusters

\* every entry of the registry old is an entry of the registry new
KeepsEntries(old, new) ==
    \A i \in 1..Len(old) : \E j \in 1..Len(new) : new[j] = old[i]

\* C22: writing a new cluster into a drone's registry never overwrites an
\* entry already there: a cluster handed to the peer or learned from the peer
\* during a synchronisation gets an id that is not in the receiving
\* active_clusters, so every entry a drone holds before a synchronisation
\* call (none of which evicts by timeout) is still there after it.
C22_NoOverwrite ==
    [][/\ KeepsEntries(peerA.active_clusters, peerA'.active_clusters)
       /\ KeepsEntries(peerB.active_clusters, peerB'.active_clusters)]_vars

\* the drone holds an entry whose centre is exactly the shared centre
TracksAtCentre(d) ==
    \E i \in 1..Len(d.active_clusters) :
        d.active_clusters[i].x = SharedCentre.x /\ d.active_clusters[i].y = SharedCentre.y

CentreDistance(d) == Dist(d.x_km - SharedCentre.x, d.y_km - SharedCentre.y)

\* the drone the claim names as owner: the one nearer than 70% of the
\* other's distance, else the one with the lower drone_id
NamedOwnerIsA(a, b) ==
    IF 10 * CentreDistance(a) < 7 * CentreDistance(b) THEN TRUE
    ELSE IF 10 * CentreDistance(b) < 7 * CentreDistance(a) THEN FALSE
    ELSE a.drone_id < b.drone_id

\* C23: when two drones track a coincident cluster, one exchange assigns it
\* by distance to the cluster centre: if one drone's distance is less than 70%
\* of the other's, the closer drone is assigned after the exchange (also when
\* it was not assigned before) and the other is not; otherwise the drone with
\* the lower drone_id is assigned and the other is not.
C23_AssignedByDistance ==
    [][(peer_calls' /= peer_calls /\ TracksAtCentre(peerA) /\ TracksAtCentre(peerB)) =>
          /\ OwnsShared(peerA') = NamedOwnerIsA(peerA, peerB)
          /\ OwnsShared(peerB') = ~NamedOwnerIsA(peerA, peerB)]_vars

-----------------------------------------------------------------------------
(* Retargeting of the collection vehicle within the capture radius *)

\* the vehicle at the movement phase of a step: after the report, the
\* collection and the strategy call of lines 91-102, with the default target
\* of lines 505-507
CsAtMovement(s, drones, pm, pp) ==
    CsDefaultIfNone(CsUpdateTarget(
        CsCollect([s EXCEPT !.historical_data = CollectHistoricalData(@, drones)], pm, pp),
        pm, pp))

\* what the strategy computes for the vehicle s when it is not skipped
CsRecomputed(s, pm, pp) ==
    LET c == s.update_counter + 1
        s1 == [s EXCEPT !.update_counter = c]
    IN IF s.strategy = "random" THEN CsRandomTarget(s, s1, c)
       ELSE IF s.strategy = "drone"
            THEN IF s.historical_data = <<>> THEN s1
                 ELSE CsGreedyTarget(s, s1, ScoredCells(s, GreedyGrid(<<>>, s.historical_data)))
       ELSE CsOptimalTarget(s, s1, BestRay(s, pm, pp, 0, <<0, -1>>))

\* the last transition was a step on the reports drones that returned
CsSteppedOn(drones) ==
    /\ cs_steps' = cs_steps + 1
    /\ ~cs'.raised
    /\ cs' = CsStep(cs, drones, particle_map, processed_particles)

SameCourse(s, t) ==
    /\ s.target_position = t.target_position
    /\ s.heading = t.heading
    /\ s.x_km = t.x_km
    /\ s.y_km = t.y_km

C24_Retargets(drones) ==
    (CsSteppedOn(drones)
     /\ NearTarget(CsAtMovement(cs, drones, particle_map, processed_particles)))
    => SameCourse(cs', CsTurnAndMove(CsRecomputed(
                           CsAtMovement(cs, drones, particle_map, processed_particles),
                           particle_map, processed_particles)))

\* C24: when, at the movement phase of a step, the vehicle is within the
\* capture radius (0.5 km) of its target, the strategy recomputes the target in
\* that same step whatever the cadence counter says, and the vehicle turns and
\* moves by the recomputed target.
C24_CaptureRetargets == [][\A drones \in DroneLists : C24_Retargets(drones)]_vars

\* the cadence of the strategy of s: lines 226, 247 and 430
CadenceOf(s) == IF s.strategy = "optimal" THEN OptimalInterval ELSE update_interval

\* in the last step a strategy call passed its cadence gate: the update
\* counter went through a multiple of the cadence
CsCadenceFired ==
    \E k \in (cs.update_counter + 1) .. cs'.update_counter : k % CadenceOf(cs) = 0

C25_Tick ==
    (CsStepped /\ cs.strategy \in {"random", "drone"})
    => (CsCadenceFired <=> (cs_steps' % update_interval = 0))

\* C25: the cadence-driven recomputation of the target happens in exactly
\* the steps whose number is a multiple of the update interval (12), so the
\* number of steps between two of them does not depend on how often the
\* vehicle came within the capture radius of its target in between.
C25_CadenceOnMultiples == [][C25_Tick]_vars

-----------------------------------------------------------------------------
(* The cadence of the peer synchronisation in the engine *)

\* C26: SimulationEngine.step calls update_drone_positions only in every
\* fifth tick: any two ticks in which it is called are a multiple of five
\* ticks apart, so the ticks in between pass without a cluster exchange.
C26_SyncEveryFifthTick ==
    \A j, k \in 1..Len(eng_syncs) : (eng_syncs[k] - eng_syncs[j]) % 5 = 0

-----------------------------------------------------------------------------
(* Depletion overrides across OceanMap.step *)

\* after process_particles_at_location the query at the point returns the
\* reduced density
C27_ReducedAfterProcess ==
    map_call'.op = "process" =>
        GetParticlesInAreaOn(particle_map', processed_particles', PointPolygon(map_call'.point))
        = CurrentDensity(particle_map, processed_particles,
                         CellOf(map_call'.point[1], map_call'.point[2]))
          - Processable(map_call'.amount,
                        CurrentDensity(particle_map, processed_particles,
                                       CellOf(map_call'.point[1], map_call'.point[2])))

\* right after step() every query returns the density step() has computed
C27_FreshAfterStep ==
    map_call.op = "step" =>
        \A polygon \in Polygons :
            get_particles_in_area(polygon)
            = CurrentDensityNoOverride(particle_map, processed_particles,
                                       CellOf(Centroid(polygon)[1], Centroid(polygon)[2]))

\* C27: a depletion is overwritten by the recomputation: after
\* process_particles_at_location at a cell, get_particles_in_area returns the
\* reduced value there until OceanMap.step() recomputes the densities, and
\* from then on the queries return the recomputed value, not the old override.
C27_DepletionOverwritten ==
    /\ []C27_FreshAfterStep
    /\ [][C27_ReducedAfterProcess]_vars

-----------------------------------------------------------------------------
(* Depletion of the neighbouring cells *)

\* what the last process_particles_at_location took from cell c
TakenFrom(c) ==
    CurrentDensity(particle_map, processed_particles, c)
    - CurrentDensity(particle_map', processed_particles', c)

C30_Tick ==
    (map_call'.op = "process" /\ map_call'.amount > 0) =>
        /\ \A n \in Neighbours(CellOf(map_call'.point[1], map_call'.point[2])) :
              CurrentDensity(particle_map, processed_particles, n) > 0 =>
                  /\ TakenFrom(n) > 0
                  /\ TakenFrom(n) <= CurrentDensity(particle_map, processed_particles, n)
        /\ map_call'.ret =
              TakenFrom(CellOf(map_call'.point[1], map_call'.point[2]))
              + SumOver([n \in Neighbours(CellOf(map_call'.point[1], map_call'.point[2])) |->
                            TakenFrom(n)],
                        Neighbours(CellOf(map_call'.point[1], map_call'.point[2])))

\* C30: process_particles_at_location with an amount a > 0 also lowers the
\* density of the neighbouring cells that hold positive density: each of them
\* loses a share, at most what it held, and the returned value is the sum of
\* what was taken from the cell and from its neighbours.
C30_NeighboursDepleted == [][C30_Tick]_vars

-----------------------------------------------------------------------------
(* One exchange never leaves a matched cluster with two owners *)

\* self is assigned its cluster c, and other the cluster o that c matched
BothAssigned(self, other, c, o) ==
    c.id \in self.assigned_clusters /\ o.id \in other.assigned_clusters

\* no cluster of self that matched a cluster of other (lines 367-375) before
\* the call is assigned to both afterwards
NoSharedOwners(self, other, self_after, other_after) ==
    \A i \in 1..Len(self.active_clusters) :
        FirstSimilar(self.active_clusters[i], other.active_clusters, 1) > 0 =>
            ~BothAssigned(self_after, other_after, self.active_clusters[i],
                          other.active_clusters[FirstSimilar(self.active_clusters[i],
                                                             other.active_clusters, 1)])

LastPeerCall == IF peer_calls = <<>> THEN "none" ELSE peer_calls[Len(peer_calls)]

\* C28: after a single A._share_cluster_info(B) in which a cluster of A is
\* matched to a coincident cluster of B, A and B are not both assigned to that
\* cluster, whatever the prior assignments, the distances and the ids are.
C28_NotBothAssigned ==
    /\ LastPeerCall = "share_ab" =>
           NoSharedOwners(peer_before[1], peer_before[2], peerA, peerB)
    /\ LastPeerCall = "share_ba" =>
           NoSharedOwners(peer_before[2], peer_before[1], peerB, peerA)

\* both drones were assigned to the cluster they share, at equal distances
\* of it, and A._share_cluster_info(B) has left it to A, the lower id
C28_Witness ==
    /\ peer_calls = <<"share_ab">>
    /\ OwnsShared(peer_before[1]) /\ OwnsShared(peer_before[2])
    /\ CentreDistance(peerA) = CentreDistance(peerB)
    /\ OwnsShared(peerA) /\ TracksShared(peerB) /\ ~OwnsShared(peerB)

-----------------------------------------------------------------------------
(* The samples the catching system stores in a tick of the engine *)

\* where the drone of that kind was when it produced its particle_data in
\* this tick: the fixed-pattern and the AI drone scan before they move, the
\* circular drone scans after it has moved
SensedAt(kind) ==
    IF kind = "lawn" THEN <<lawn_before.x_km, lawn_before.y_km>>
    ELSE IF kind = "ai" THEN <<ai_before.x_km, ai_before.y_km>>
    ELSE <<circ.x_km, circ.y_km>>

SensedData(kind) ==
    IF kind = "lawn" THEN lawn.particle_data
    ELSE IF kind = "ai" THEN ai.particle_data
    ELSE circ.particle_data

\* the sample _collect_historical_data has stored for drone k of the fleet in
\* this tick
TickSample(k) == cs.historical_data[Len(cs.historical_data) - Len(eng.drones) + k]

SampleAtSensedPosition(k) ==
    /\ TickSample(k)[3] = SensedData(eng.drones[k])
    /\ <<TickSample(k)[1], TickSample(k)[2]>> = SensedAt(eng.drones[k])

\* C29: every sample stored in historical_data pairs a density with the
\* position at which the drone sensed it: for every kind of drone, the
\* position _collect_historical_data records in a tick is the position the
\* drone held when it produced particle_data.
C29_SampleWhereSensed ==
    eng.pc = "record" => \A k \in 1..Len(eng.drones) : SampleAtSensedPosition(k)

-----------------------------------------------------------------------------
(* The cells a depletion is not aimed at *)

\* C31: process_particles_at_location at a cell leaves the effective density
\* of every other cell as it would be without the call, right after it and
\* after any number of step() calls: a cell that no depletion was aimed at
\* answers a query with the density step() has computed for it.
C31_OtherCellsUntouched ==
    \A p \in QueryPoints :
        CellOf(p[1], p[2]) \notin map_targets =>
            get_particles_in_area(PointPolygon(p))
            = CurrentDensityNoOverride(particle_map, processed_particles, CellOf(p[1], p[2]))

-----------------------------------------------------------------------------
(* Ageing and eviction of the cluster registry of an AIDrone *)

\* registries of a drone that has been flying for a while: entries of
\* different ages near its position and away from it
AgedCluster(id, x, y, steps) ==
    [id |-> id, x |-> x, y |-> y, density |-> DensityOne, steps |-> steps]
AgedFar(steps) == <<AgedCluster(0, 40 * KM, 50 * KM, steps)>>
AgedNear(steps) == <<AgedCluster(0, 5050, 5050, steps)>>
AgedBoth == <<AgedCluster(0, 40 * KM, 50 * KM, cluster_timeout - 1),
              AgedCluster(1, 5050, 5150, 3)>>

\* the position, the registry, the assignments, the exploration weight and the
\* count of successful exploitations such a drone may have
AgedAt(start, layout, assigned, weight, successes) ==
    [start |-> start, layout |-> layout, assigned |-> assigned,
     weight |-> weight, successes |-> successes]
AgedDrones ==
    { AgedAt(<<5050, 5050>>, AgedNear(cluster_timeout), {0}, min_exploration_weight, 5),
      AgedAt(<<5050, 5050>>, AgedBoth, {0, 1},
             min_exploration_weight + exploration_weight_step, 5),
      AgedAt(<<10100, 200>>, AgedBoth, {1}, initial_exploration_weight, 0) }

AiInitAged ==
    \E a \in AgedDrones :
       /\ ai = [PeerNew(a.start, 0, a.layout, a.assigned)
                   EXCEPT !.exploration_weight = a.weight,
                          !.exploitation_success_counter = a.successes]
       /\ ai_before = ai
       /\ ai_plan = "none"
       /\ ai_steps = 0

InitRegistry == MapInitWith(DatasetC) /\ CatchInitMain /\ LawnInitMain /\ AiInitAged
                /\ CircInitMain /\ EngineInitMain /\ PeerInitMain /\ SyncInitMain
SpecRegistry == InitRegistry /\ [][AiNext]_vars

\* entry i of the registry is the one this step's scan is merged into
\* (lines 298-322): the scan found a cluster and i is the first entry near
MergedInStep(i) ==
    /\ ai'.particle_data >= min_cluster_density
    /\ FirstNear(ai, ai.active_clusters, 1) = i

C32_AgeBounded ==
    ai_steps >= 1 =>
        \A i \in 1..Len(ai.active_clusters) : ai.active_clusters[i].steps <= cluster_timeout

C32_Entry(i) ==
    IF MergedInStep(i)
    THEN /\ ai.active_clusters[i].id \in ItemIds(ai'.active_clusters)
         /\ ItemOf(ai'.active_clusters, ai.active_clusters[i].id).steps = 1
    ELSE IF ai.active_clusters[i].steps + 1 > cluster_timeout
    THEN /\ ai.active_clusters[i].id \notin ItemIds(ai'.active_clusters)
         /\ ai.active_clusters[i].id \notin ai'.assigned_clusters
    ELSE /\ ai.active_clusters[i].id \in ItemIds(ai'.active_clusters)
         /\ ItemOf(ai'.active_clusters, ai.active_clusters[i].id).steps
                = ai.active_clusters[i].steps + 1

C32_Ageing ==
    ai_steps' = ai_steps + 1 => \A i \in 1..Len(ai.active_clusters) : C32_Entry(i)

-----------------------------------------------------------------------------
(* The exploration weight of an AIDrone *)

WeightInRange(d) ==
    /\ min_exploration_weight <= d.exploration_weight
    /\ d.exploration_weight <= initial_exploration_weight

\* C33: in every reachable state of an AIDrone the exploration weight lies
\* between min_exploration_weight (0.3) and the initial weight (0.7).
C33_WeightInRange ==
    WeightInRange(ai) /\ WeightInRange(peerA) /\ WeightInRange(peerB)

\* a drone at the minimum weight has had its sixth successful exploitation,
\* and the weight is still the minimum
C33_Witness ==
    /\ ai_steps >= 1
    /\ ai_plan = "exploitation"
    /\ ai_before.exploration_weight = min_exploration_weight
    /\ ai_before.exploitation_success_counter = 5
    /\ ai.exploitation_success_counter = 0
    /\ ai.exploration_weight = min_exploration_weight

-----------------------------------------------------------------------------
(* A fleet of two AIDrones that are stepped and synchronised in any order *)

\* peerA.step() with the random draws r, on the map of the simulation
PeerStepA ==
    /\ Len(peer_calls) < MaxPeerCalls
    /\ \E r \in EngineDraws :
          peerA' = AiStepOf(peerA, particle_map, processed_particles, r)
    /\ peerB' = peerB
    /\ peer_calls' = Append(peer_calls, "step_a")
    /\ peer_before' = <<peerA, peerB>>
    /\ UNCHANGED notPeerVars

\* peerB.step() with the random draws r
PeerStepB ==
    /\ Len(peer_calls) < MaxPeerCalls
    /\ \E r \in EngineDraws :
          peerB' = AiStepOf(peerB, particle_map, processed_particles, r)
    /\ peerA' = peerA
    /\ peer_calls' = Append(peer_calls, "step_b")
    /\ peer_before' = <<peerA, peerB>>
    /\ UNCHANGED notPeerVars

FleetNext == PeerShareAB \/ PeerShareBA \/ PeerSync \/ PeerStepA \/ PeerStepB

\* the registries and assignments the two drones start with, and where the
\* second drone is: entries about to time out, entries only one drone knows,
\* and counters that collide with the ids the peer will write under
FleetAt(la, aa, lb, ab, pb) == [la |-> la, aa |-> aa, lb |-> lb, ab |-> ab, pb |-> pb]
FleetStarts ==
    { FleetAt(<<>>, {}, <<ClusterAt(0, 50 * KM, 50 * KM, DensityOne)>>, {0},
              <<50 * KM, 52 * KM>>),
      FleetAt(AgedBoth, {0, 1},
              <<ClusterAt(0, 20 * KM, 80 * KM, DensityOne),
                ClusterAt(1, 80 * KM, 20 * KM, DensityOne)>>, {1}, <<60 * KM, 50 * KM>>),
      FleetAt(AgedFar(cluster_timeout), {0}, <<>>, {}, <<50 * KM, 52 * KM>>),
      FleetAt(<<ClusterAt(0, 50 * KM, 50 * KM, DensityOne)>>, {0},
              <<ClusterAt(0, 20 * KM, 80 * KM, DensityOne),
                ClusterAt(1, 50 * KM, 50 * KM, DensityOne)>>, {1}, <<50 * KM, 52 * KM>>),
      FleetAt(<<>>, {},
              <<ClusterAt(0, 20 * KM, 80 * KM, DensityOne),
                ClusterAt(1, 80 * KM, 20 * KM, DensityOne)>>, {0, 1}, <<60 * KM, 50 * KM>>),
      FleetAt(AgedFar(cluster_timeout - 1), {0},
              <<ClusterAt(0, 80 * KM, 20 * KM, DensityOne)>>, {0}, <<60 * KM, 50 * KM>>) }

PeerInitFleet ==
    \E f \in FleetStarts :
       PeerInitWith(<<5050, 5050>>, f.pb, <<0, 1>>, f.la, f.lb, f.aa, f.ab)

InitFleet ==
    /\ MapInitWith(DatasetC) /\ CatchInitMain /\ LawnInitMain /\ AiInitMain /\ CircInitMain
    /\ EngineInitMain /\ PeerInitFleet /\ SyncInitMain
SpecFleet == InitFleet /\ [][FleetNext]_vars

\* every assigned cluster id is a key of the registry
AssignedAreActive(d) == d.assigned_clusters \subseteq ItemIds(d.active_clusters)

\* _plan_exploitation entered with assigned clusters finds one to move toward
ExploitationFinds(d) == d.assigned_clusters /= {} => BestCluster(d) /= -1

\* the drone as the planner of its next step() sees it, after the scan
Sensed(d) == AiSense(d, particle_map, processed_particles)

\* C34: in every reachable state of an AIDrone, after any interleaving of
\* step, update_drone_positions and being the peer of another drone's sync,
\* assigned_clusters is a subset of the ids in active_clusters; hence an
\* exploitation attempt entered with a non-empty assigned set, also the one of
\* the next step, finds a cluster to move toward.
C34_AssignedAreActive ==
    \A d \in {peerA, peerB, ai} :
        /\ AssignedAreActive(d) /\ ExploitationFinds(d)
        /\ AssignedAreActive(Sensed(d)) /\ ExploitationFinds(Sensed(d))

\* a drone was stepped after a sync, an entry it was assigned was evicted in
\* that step, and it still holds an assignment taken over from its peer
C34_Witness ==
    /\ Len(peer_calls) >= 2
    /\ peer_calls[Len(peer_calls)] = "step_a"
    /\ \E k \in 1..(Len(peer_calls) - 1) : peer_calls[k] \in {"share_ab", "share_ba", "sync"}
    /\ peer_before[1].assigned_clusters \ ItemIds(peerA.active_clusters) /= {}
    /\ peerA.assigned_clusters /= {}

-----------------------------------------------------------------------------
(* Sector coordination (update_drone_positions, lines 175-196) *)

\* the sector preferences of the list, in list order
SectorsOf(f) == [k \in 1..Len(f) |-> f[k].sector_preference]

\* drone i shares its sector with a drone of lower id
LowerShares(f, i) ==
    \E j \in 1..Len(f) : /\ f[j].drone_id < f[i].drone_id
                         /\ f[j].sector_preference = f[i].sector_preference

\* no two drones of the list prefer the same sector
DistinctSectors(f) ==
    \A a, b \in 1..Len(f) : a /= b => f[a].sector_preference /= f[b].sector_preference

\* a full round of update_drone_positions calls has been made
RoundDone == Len(fleet) > 0 /\ sync_calls >= Len(fleet)

\* the call of drone sync_i: no other drone's preference changes (a drone of
\* lower id keeps its quadrant), and the caller moves exactly when it shares
\* its quadrant with a drone of lower id, to a least crowded other quadrant
C35_Call ==
    /\ \A k \in 1..Len(fleet) :
          k /= sync_i => fleet'[k].sector_preference = fleet[k].sector_preference
    /\ IF LowerShares(fleet, sync_i)
       THEN /\ fleet'[sync_i].sector_preference \in LeastCrowdedSectors(fleet)
            /\ fleet'[sync_i].sector_preference /= fleet[sync_i].sector_preference
       ELSE fleet'[sync_i].sector_preference = fleet[sync_i].sector_preference

\* after the first round no call changes a preference
C35_Stable == RoundDone => SectorsOf(fleet') = SectorsOf(fleet)

\* after the first round the preferences are pairwise distinct
C35_Distinct == RoundDone => DistinctSectors(fleet)

\* C35: quadrant conflicts are resolved by id: when two adaptive agents hold
\* the same sector_preference at a sync, the lower drone_id keeps its quadrant
\* and the higher one moves to a least-crowded other quadrant; with at most
\* four agents, after one sync round all hold pairwise distinct quadrants and
\* no later sync changes any preference.
C35_ResolvedById ==
    /\ []C35_Distinct
    /\ [][C35_Call /\ C35_Stable]_vars

\* four drones that all started in quadrant 0 have completed a round
C35_Witness ==
    /\ Len(fleet) = 4
    /\ \A k \in 1..4 : fleet[k].drone_id % 4 = 0
    /\ sync_calls = 4
    /\ DistinctSectors(fleet)

-----------------------------------------------------------------------------
(* The navigation target of the catching system *)

\* C36: the navigation target of a CatchingSystem always lies within
\* [0,100] x [0,100], whichever strategy (random, greedy, optimal) or the
\* default fallback set it.
C36_TargetInMap ==
    cs.target_position /= None => InMap(cs.target_position[1], cs.target_position[2])

-----------------------------------------------------------------------------
(* The orbit centre of the circular drone *)

\* max_center_movement of circular_drone.py line 110 for the step the drone is
\* about to take
CentreCap == Round(cs.speed_km_h * CircSeconds * 11, 36000)

\* the distance between the orbit centre of d and the catching system
CentreGap(d) == Dist(cs.x_km - d.center_x, cs.y_km - d.center_y)

\* the orbit centre of d is where the catching system is
CentreOnSystem(d) == d.center_x = cs.x_km /\ d.center_y = cs.y_km

\* a step() of the circular drone is taken
CircStepped == circ_steps' = circ_steps + 1

\* C37: the orbit centre of a CircularDrone tracks the catching system under a
\* rate limit: in every step the centre moves by at most the per-tick cap, and
\* whenever the centre differs from the system's position the step moves it
\* strictly closer (by the full gap or by the cap), so that the centre of a
\* system that has stopped reaches it.
C37_Tracking ==
    CircStepped =>
        /\ Dist(circ'.center_x - circ.center_x, circ'.center_y - circ.center_y) <= CentreCap
        /\ ~CentreOnSystem(circ) =>
              /\ CentreGap(circ') < CentreGap(circ)
              /\ \/ CentreOnSystem(circ')
                 \/ Dist(circ'.center_x - circ.center_x, circ'.center_y - circ.center_y)
                        = CentreCap
-----------------------------------------------------------------------------
(* The aggregates of the simulation engine *)

\* the last entry of a time series
LastOf(series) == series[Len(series)]

\* the engine is between two step() calls, or an exception has left step()
EngineAtRest == eng.pc \in {"idle", "raised"}

\* C38: engine aggregates stay consistent: stats['total_particles_processed']
\* equals the sum of total_collected over all catching systems (here the one
\* system) and equals the last entry of cumulative_caught, and the last entry
\* of system_cumulative_caught[i] equals system i's total_collected.
C38_AggregatesConsistent ==
    EngineAtRest =>
        /\ eng.stats.total_particles_processed = cs.total_collected
        /\ eng.stats.total_particles_processed = LastOf(eng.cumulative_caught)
        /\ LastOf(eng.system_cumulative_caught) = cs.total_collected

\* the same for the engines whose step() has never raised
C38_ConsistentUnlessRaised == eng.pc = "idle" => C38_AggregatesConsistent

====
